---- MODULE Spec2Model ----
(***************************************************************************)
(* A model of the binary-split window manager of wm.go: the DisplayNode    *)
(* tree, the config-editor buttons (ModalButtonSet), the pane-pick         *)
(* handlers registered by wmInit, wmDrawUI and wmDrawPanes.                *)
(*                                                                         *)
(* Pointers are modelled by identities: a *DisplayNode is a number of      *)
(* NodeIds (0 is nil) and heap[n] is the struct it points to; a Pane is a  *)
(* number of PaneIds (0 is nil) and the pane &node.SplitLine of node n is  *)
(* the number -n.  A freshly allocated object takes the least identity no  *)
(* live reference holds.  SplitLine.Pos is kept in hundredths (0.5 is 50). *)
(***************************************************************************)
EXTENDS Integers, Sequences, FiniteSets, TLC

\* ------------------------------------------------------------------ bounds
\* Most leaves the edited tree may hold (a split is not taken beyond it).
MaxLeaves == 3
\* Size of the window, in pixels.
DisplayW == 64
DisplayH == 144

\* --------------------------------------------------------------- constants
SplitAxisNone == 0
SplitAxisX == 1
SplitAxisY == 2
\* node.SplitLine.Pos = 0.5, in hundredths
HalfPos == 50
\* wm.topControlsHeight += 60
ConfigEditorHeight == 60
\* ui.topControlsHeight and globalConfig.statusBar.Height(), read each frame
UITopControlsHeight == 10
StatusBarHeight == 10
\* int(3*dpiScale(platform) + 0.5) at dpiScale 1
SplitLineWidth == 3

\* Most panes the keyboard focus stack may hold (a transient take is not
\* made beyond it).
MaxStack == 2

\* clamp(s.Pos, .01, .99), in hundredths
PosMin == 1
PosMax == 99

NilNode == 0
NilPane == 0

\* Nodes: the edited tree, the two nodes of one more split, and the editor's
\* backup tree (at most 3 nodes).
MaxNodes == (2 * MaxLeaves + 1) + 3
NodeIds == 1..MaxNodes
\* Panes: the leaves of both trees and the references held outside them.
MaxPaneId == MaxLeaves + 12
PaneIds == 1..MaxPaneId

\* The concrete pane types the model draws from (of the nine of wmDrawUI).
PaneTypes == {"CLIPane", "EmptyPane", "RadarScopePane"}

\* The entries of the "Create New..." combo the model's user selects.
CreateTypes == {"EmptyPane"}

\* Pane.CanTakeKeyboardFocus() of the concrete pane types.
CanTakeKeyboardFocusType(t) == t \in {"CLIPane", "RadarScopePane"}

\* Pane.Name() of a newly made pane of each concrete type.
NewPaneName(t) ==
    CASE t = "CLIPane" -> "Command Line Interface"
      [] t = "EmptyPane" -> "(Empty)"
      [] t = "RadarScopePane" -> "(Unnamed)"
      [] OTHER -> ""

\* The name Pane.Duplicate(nameAsCopy) gives the new pane: that of the pane,
\* marked as a copy when asked. An EmptyPane, a struct without fields, has
\* the name of its type.
DuplicateName(t, name, nameAsCopy) ==
    IF nameAsCopy /\ t # "EmptyPane" THEN name \o " Copy" ELSE name

ButtonNames == <<"Copy", "Exchange", "Split Horizontally", "Split Vertically", "Delete">>

Children2(a, b) == (0 :> a) @@ (1 :> b)

\* The zero value of a DisplayNode.
ZeroNode == [Pane |-> NilPane, SplitLine |-> [Pos |-> 0, Axis |-> SplitAxisNone],
             Children |-> Children2(NilNode, NilNode)]

\* &DisplayNode{Pane: pane}
LeafNode(pane) == [ZeroNode EXCEPT !.Pane = pane]

\* The Pane value &node.SplitLine of node n, and back.
SplitLinePane(n) == 0 - n
IsSplitLine(p) == p < 0
SplitLineNode(p) == 0 - p

Min(S) == CHOOSE x \in S : \A y \in S : x <= y

\* ------------------------------------------------------------- DisplayNode

RECURSIVE Reach(_, _)
\* The nodes reachable from d through Children.
Reach(h, d) ==
    IF d = NilNode THEN {}
    ELSE {d} \cup Reach(h, h[d].Children[0]) \cup Reach(h, h[d].Children[1])

RECURSIVE NodeForPane(_, _, _)
\* The search that does not go on to Children[1].
NodeForPaneFirstChildOnly(h, d, pane) ==
    IF h[d].Pane = pane THEN d
    ELSE IF h[d].Children[0] = NilNode THEN NilNode
    ELSE NodeForPane(h, h[d].Children[0], pane)
NodeForPane(h, d, pane) ==
    IF h[d].Pane = pane THEN d
    ELSE IF h[d].Children[0] = NilNode THEN NilNode
    ELSE LET d0 == NodeForPane(h, h[d].Children[0], pane)
         IN  IF d0 # NilNode THEN d0
             ELSE NodeForPane(h, h[d].Children[1], pane)

RECURSIVE ParentNodeForPane(_, _, _)
\* <<parent, index>>; <<nil, -1>> when no child of any node holds the pane.
ParentNodeForPane(h, d, pane) ==
    IF d = NilNode THEN <<NilNode, -1>>
    ELSE LET c0 == h[d].Children[0]
             c1 == h[d].Children[1]
         IN  IF c0 # NilNode /\ h[c0].Pane = pane THEN <<d, 0>>
             ELSE IF c1 # NilNode /\ h[c1].Pane = pane THEN <<d, 1>>
             ELSE LET r0 == ParentNodeForPane(h, c0, pane)
                  IN  IF r0[1] # NilNode THEN r0
                      ELSE ParentNodeForPane(h, c1, pane)

RECURSIVE VisitPanes(_, _)
\* The traversal that visits the split line before both children.
VisitPanesSplitLineFirst(h, d) ==
    IF h[d].SplitLine.Axis = SplitAxisNone THEN <<h[d].Pane>>
    ELSE <<SplitLinePane(d)>> \o VisitPanes(h, h[d].Children[0])
         \o VisitPanes(h, h[d].Children[1])
\* The sequence of panes visit is called with.
VisitPanes(h, d) ==
    IF h[d].SplitLine.Axis = SplitAxisNone THEN <<h[d].Pane>>
    ELSE VisitPanes(h, h[d].Children[0]) \o <<SplitLinePane(d)>>
         \o VisitPanes(h, h[d].Children[1])

Range(s) == {s[i] : i \in 1..Len(s)}

\* The leaves below d and the panes they hold.
Leaves(h, d) == {n \in Reach(h, d) : h[n].SplitLine.Axis = SplitAxisNone}
LeafPanes(h, d) == {h[n].Pane : n \in Leaves(h, d)}

\* ---------------------------------------------------------------- Extent2D

Extent(x0, y0, x1, y1) == [p0 |-> <<x0, y0>>, p1 |-> <<x1, y1>>]

\* p0 <= p < p1 on both axes
Inside(e, p) ==
    /\ p[1] >= e.p0[1] /\ p[1] < e.p1[1]
    /\ p[2] >= e.p0[2] /\ p[2] < e.p1[2]

\* The two edges of the gutter of width w centred at fraction pos of [a, b],
\* kept inside [a, b].
GutterEdges(a, b, pos, w) ==
    LET split == a + (pos * (b - a)) \div 100
        lo == split - w \div 2
        s0 == IF lo < a THEN a ELSE IF lo > b THEN b ELSE lo
        hi == s0 + w
        s1 == IF hi > b THEN b ELSE hi
    IN  <<s0, s1>>

\* <<before, gutter, after>> along x
ExtentSplitX(e, pos, w) ==
    LET g == GutterEdges(e.p0[1], e.p1[1], pos, w)
    IN  << Extent(e.p0[1], e.p0[2], g[1], e.p1[2]),
           Extent(g[1], e.p0[2], g[2], e.p1[2]),
           Extent(g[2], e.p0[2], e.p1[1], e.p1[2]) >>

\* <<before, gutter, after>> along y
ExtentSplitY(e, pos, w) ==
    LET g == GutterEdges(e.p0[2], e.p1[2], pos, w)
    IN  << Extent(e.p0[1], e.p0[2], e.p1[1], g[1]),
           Extent(e.p0[1], g[1], e.p1[1], g[2]),
           Extent(e.p0[1], g[2], e.p1[1], e.p1[2]) >>

ExtentSplit(e, axis, pos, w) ==
    IF axis = SplitAxisX THEN ExtentSplitX(e, pos, w) ELSE ExtentSplitY(e, pos, w)

\* DisplayNode.SplitX(x, newChild) and DisplayNode.SplitY(y, newChild) on node
\* d: the node they allocate and return. (On a node that is no leaf an error
\* is logged, and the node is made all the same.)
SplitX(d, x, newChild) ==
    [Pane |-> NilPane, SplitLine |-> [Pos |-> x, Axis |-> SplitAxisX],
     Children |-> Children2(d, newChild)]
SplitY(d, y, newChild) ==
    [Pane |-> NilPane, SplitLine |-> [Pos |-> y, Axis |-> SplitAxisX],
     Children |-> Children2(d, newChild)]

RECURSIVE VisitPanesWithBounds(_, _, _, _, _)
\* The traversal that visits the split line after both children.
VisitPanesWithBoundsSplitLineLast(h, d, displayExtent, parentDisplayExtent, fullDisplayExtent) ==
    IF h[d].SplitLine.Axis = SplitAxisNone
    THEN << [disp |-> displayExtent, parent |-> parentDisplayExtent,
             full |-> fullDisplayExtent, pane |-> h[d].Pane] >>
    ELSE LET s == ExtentSplit(displayExtent, h[d].SplitLine.Axis,
                              h[d].SplitLine.Pos, SplitLineWidth)
         IN  VisitPanesWithBounds(h, h[d].Children[0], s[1], displayExtent, fullDisplayExtent)
             \o VisitPanesWithBounds(h, h[d].Children[1], s[3], displayExtent, fullDisplayExtent)
             \o << [disp |-> s[2], parent |-> displayExtent,
                    full |-> fullDisplayExtent, pane |-> SplitLinePane(d)] >>
\* With the identity node filter: the sequence of (displayExtent,
\* parentDisplayExtent, fullDisplayExtent, pane) visit is called with.
VisitPanesWithBounds(h, d, displayExtent, parentDisplayExtent, fullDisplayExtent) ==
    IF h[d].SplitLine.Axis = SplitAxisNone
    THEN << [disp |-> displayExtent, parent |-> parentDisplayExtent,
             full |-> fullDisplayExtent, pane |-> h[d].Pane] >>
    ELSE LET s == ExtentSplit(displayExtent, h[d].SplitLine.Axis,
                              h[d].SplitLine.Pos, SplitLineWidth)
         IN  VisitPanesWithBounds(h, h[d].Children[0], s[1], displayExtent, fullDisplayExtent)
             \o << [disp |-> s[2], parent |-> displayExtent,
                    full |-> fullDisplayExtent, pane |-> SplitLinePane(d)] >>
             \o VisitPanesWithBounds(h, h[d].Children[1], s[3], displayExtent, fullDisplayExtent)

RECURSIVE findPaneForMouse(_, _, _, _)
\* The hit test that splits every node along x.
findPaneForMouseAlongX(h, node, displayExtent, p) ==
    IF ~Inside(displayExtent, p) THEN NilPane
    ELSE IF h[node].SplitLine.Axis = SplitAxisNone THEN h[node].Pane
    ELSE LET s == ExtentSplitX(displayExtent, h[node].SplitLine.Pos, SplitLineWidth)
         IN  IF Inside(s[1], p) THEN findPaneForMouse(h, h[node].Children[0], s[1], p)
             ELSE IF Inside(s[2], p) THEN SplitLinePane(node)
             ELSE IF Inside(s[3], p) THEN findPaneForMouse(h, h[node].Children[1], s[3], p)
             ELSE NilPane
findPaneForMouse(h, node, displayExtent, p) ==
    IF ~Inside(displayExtent, p) THEN NilPane
    ELSE IF h[node].SplitLine.Axis = SplitAxisNone THEN h[node].Pane
    ELSE LET s == ExtentSplit(displayExtent, h[node].SplitLine.Axis,
                              h[node].SplitLine.Pos, SplitLineWidth)
         IN  IF Inside(s[1], p) THEN findPaneForMouse(h, h[node].Children[0], s[1], p)
             ELSE IF Inside(s[2], p) THEN SplitLinePane(node)
             ELSE IF Inside(s[3], p) THEN findPaneForMouse(h, h[node].Children[1], s[3], p)
             ELSE NilPane

\* -------------------------------------------------------------- the state

VARIABLES
    heap,                  \* the DisplayNode each node identity points to
    paneType,              \* the concrete type of each allocated pane
    paneName,              \* Pane.Name() of each allocated pane
    DisplayRoot,           \* positionConfig.DisplayRoot
    showConfigEditor,      \* wm.showConfigEditor
    paneFirstPick,         \* wm.paneFirstPick
    handlePanePick,        \* wm.handlePanePick: the closure, by what it does
    paneCreatePrompt,      \* wm.paneCreatePrompt
    paneConfigHelpText,    \* wm.paneConfigHelpText
    editorBackupRoot,      \* wm.editorBackupRoot
    active,                \* wm.configButtons.active
    topControlsHeight,     \* wm.topControlsHeight
    showPaneAsRoot,        \* wm.showPaneAsRoot
    nodeFilterUnset,       \* wm.nodeFilterUnset
    nodeFilterPane,        \* the pane wm.nodeFilter shows (nil: the identity filter)
    mouseConsumerOverride, \* wm.mouseConsumerOverride
    keyboardFocusPane,     \* wm.keyboardFocusPane
    keyboardFocusStack,    \* wm.keyboardFocusStack
    showPaneSettings,      \* wm.showPaneSettings: pane -> *show
    showPaneName,          \* wm.showPaneName: pane -> name
    lastCall,              \* the last direct call of a function, and what it gave
    pc,                    \* "run", or "panic" after a nil dereference
    lastFrame              \* what the last frame was given and what it called

vars == << heap, paneType, paneName, DisplayRoot, showConfigEditor, paneFirstPick, handlePanePick,
           paneCreatePrompt, paneConfigHelpText, editorBackupRoot, active,
           topControlsHeight, showPaneAsRoot, nodeFilterUnset, nodeFilterPane,
           mouseConsumerOverride, keyboardFocusPane, keyboardFocusStack,
           showPaneSettings, showPaneName, lastCall, pc, lastFrame >>

\* The state as one record, so that the calls of a frame compose.
State ==
    [ heap |-> heap, paneType |-> paneType, paneName |-> paneName,
      DisplayRoot |-> DisplayRoot,
      showConfigEditor |-> showConfigEditor, paneFirstPick |-> paneFirstPick,
      handlePanePick |-> handlePanePick, paneCreatePrompt |-> paneCreatePrompt,
      paneConfigHelpText |-> paneConfigHelpText, editorBackupRoot |-> editorBackupRoot,
      active |-> active, topControlsHeight |-> topControlsHeight,
      showPaneAsRoot |-> showPaneAsRoot, nodeFilterUnset |-> nodeFilterUnset,
      nodeFilterPane |-> nodeFilterPane, mouseConsumerOverride |-> mouseConsumerOverride,
      keyboardFocusPane |-> keyboardFocusPane, keyboardFocusStack |-> keyboardFocusStack,
      showPaneSettings |-> showPaneSettings, showPaneName |-> showPaneName,
      lastCall |-> lastCall, pc |-> pc, lastFrame |-> lastFrame ]

Install(st) ==
    /\ heap' = st.heap
    /\ paneType' = st.paneType
    /\ paneName' = st.paneName
    /\ DisplayRoot' = st.DisplayRoot
    /\ showConfigEditor' = st.showConfigEditor
    /\ paneFirstPick' = st.paneFirstPick
    /\ handlePanePick' = st.handlePanePick
    /\ paneCreatePrompt' = st.paneCreatePrompt
    /\ paneConfigHelpText' = st.paneConfigHelpText
    /\ editorBackupRoot' = st.editorBackupRoot
    /\ active' = st.active
    /\ topControlsHeight' = st.topControlsHeight
    /\ showPaneAsRoot' = st.showPaneAsRoot
    /\ nodeFilterUnset' = st.nodeFilterUnset
    /\ nodeFilterPane' = st.nodeFilterPane
    /\ mouseConsumerOverride' = st.mouseConsumerOverride
    /\ keyboardFocusPane' = st.keyboardFocusPane
    /\ keyboardFocusStack' = st.keyboardFocusStack
    /\ showPaneSettings' = st.showPaneSettings
    /\ showPaneName' = st.showPaneName
    /\ lastCall' = st.lastCall
    /\ pc' = st.pc
    /\ lastFrame' = st.lastFrame

\* wm.handlePanePick = nil
NoHandler == [kind |-> "nil", newPane |-> NilPane]
\* The closure a button's callback returns, wrapped by ModalButtonSet.Draw.
ButtonHandler(name) == [kind |-> name, newPane |-> NilPane]
\* setPicked(newPane)
SetPickedHandler(newPane) == [kind |-> "setPicked", newPane |-> newPane]

\* No frame has run yet.
NoFrame == [ui |-> "", clicked |-> FALSE, other |-> FALSE, dragging |-> "none",
            focus |-> NilPane, invoked |-> FALSE,
            kind |-> "nil", pane |-> NilPane, first |-> NilPane, done |-> FALSE]

\* No function has been called directly.
NoCall == [fn |-> ""]

\* --------------------------------------------------------------- allocation

\* The nodes a live pointer reaches.
LiveNodes(st) == Reach(st.heap, st.DisplayRoot) \cup Reach(st.heap, st.editorBackupRoot)

\* The panes a live reference holds.
LivePanes(st) ==
    ( {st.heap[n].Pane : n \in LiveNodes(st)}
      \cup {st.paneFirstPick, st.handlePanePick.newPane, st.nodeFilterPane,
            st.mouseConsumerOverride, st.keyboardFocusPane,
            st.lastFrame.pane, st.lastFrame.first, st.lastFrame.focus}
      \cup Range(st.keyboardFocusStack) ) \cap PaneIds

\* A newly allocated pane: an identity no live reference holds.
FreshPane(st) == Min(PaneIds \ LivePanes(st))

\* Two newly allocated nodes.
FreshNode1(st) == Min(NodeIds \ LiveNodes(st))
FreshNode2(st) ==
    LET free == NodeIds \ LiveNodes(st)
    IN  Min(free \ {Min(free)})

\* ---- identities are renamed after each frame (the program compares
\* ---- pointers for equality only, so the renaming changes no behaviour)

RECURSIVE Preorder(_, _)
Preorder(h, d) ==
    IF d = NilNode THEN <<>>
    ELSE <<d>> \o Preorder(h, h[d].Children[0]) \o Preorder(h, h[d].Children[1])

RECURSIVE Dedup(_)
\* The sequence without the later occurrences of its elements.
Dedup(seq) ==
    IF seq = <<>> THEN <<>>
    ELSE LET front == Dedup(SubSeq(seq, 1, Len(seq) - 1))
             x == seq[Len(seq)]
         IN  IF x \in Range(front) THEN front ELSE Append(front, x)

IndexOf(seq, x) == CHOOSE i \in 1..Len(seq) : seq[i] = x

IsPaneId(p) == p > 0

\* The split line of a node that is no longer reachable.
DeadSplitLine == SplitLinePane(MaxNodes + 1)

\* The state with the reachable nodes numbered in preorder (the tree, then the
\* backup), the referenced panes numbered in the order the references are
\* listed, and everything unreachable collected.
Canonical(st) ==
    LET h == st.heap
        order == Preorder(h, st.DisplayRoot) \o Preorder(h, st.editorBackupRoot)
        nodes == Range(order)
        nm(n) == IF n = NilNode THEN NilNode ELSE IndexOf(order, n)
        leafPanes == [i \in 1..Len(order) |-> h[order[i]].Pane]
        refs == Dedup(SelectSeq(
                   leafPanes
                   \o << st.paneFirstPick, st.handlePanePick.newPane, st.nodeFilterPane,
                         st.mouseConsumerOverride, st.keyboardFocusPane >>
                   \o st.keyboardFocusStack
                   \o << st.lastFrame.pane, st.lastFrame.first, st.lastFrame.focus >>, IsPaneId))
        pm(p) == IF p = NilPane THEN NilPane
                 ELSE IF p > 0 THEN IndexOf(refs, p)
                 ELSE IF SplitLineNode(p) \in nodes THEN SplitLinePane(nm(SplitLineNode(p)))
                 ELSE DeadSplitLine
        node(n) == [Pane |-> pm(h[n].Pane), SplitLine |-> h[n].SplitLine,
                    Children |-> Children2(nm(h[n].Children[0]), nm(h[n].Children[1]))]
    IN  [st EXCEPT
           !.heap = [n \in NodeIds |-> IF n <= Len(order) THEN node(order[n]) ELSE ZeroNode],
           !.paneType = [p \in PaneIds |->
                            IF p <= Len(refs) THEN st.paneType[refs[p]] ELSE "none"],
           !.paneName = [p \in PaneIds |->
                            IF p <= Len(refs) THEN st.paneName[refs[p]] ELSE ""],
           !.DisplayRoot = nm(st.DisplayRoot),
           !.editorBackupRoot = nm(st.editorBackupRoot),
           !.paneFirstPick = pm(st.paneFirstPick),
           !.handlePanePick = [st.handlePanePick EXCEPT !.newPane = pm(st.handlePanePick.newPane)],
           !.nodeFilterPane = pm(st.nodeFilterPane),
           !.mouseConsumerOverride = pm(st.mouseConsumerOverride),
           !.keyboardFocusPane = pm(st.keyboardFocusPane),
           !.keyboardFocusStack = [i \in 1..Len(st.keyboardFocusStack) |->
                                      pm(st.keyboardFocusStack[i])],
           !.lastFrame = [st.lastFrame EXCEPT !.pane = pm(st.lastFrame.pane),
                                              !.first = pm(st.lastFrame.first),
                                              !.focus = pm(st.lastFrame.focus)]]

\* A nil pointer is dereferenced: the program panics.
Panic(st) == [st EXCEPT !.pc = "panic"]

\* ------------------------------------------------- the pane-pick handlers
\* Each gives the state after the call and what the call returned.

Ret(st, done) == [st |-> st, done |-> done]

\* Pane.Duplicate(nameAsCopy): a new pane of the same concrete type.
DuplicatePane(st, pane, nameAsCopy) ==
    LET new == FreshPane(st)
    IN  [pane |-> new,
         st |-> [st EXCEPT !.paneType[new] = st.paneType[pane],
                           !.paneName[new] = DuplicateName(st.paneType[pane],
                                                           st.paneName[pane], nameAsCopy)]]

\* The Copy closure giving the destination the source pane itself, not a
\* duplicate of it.
CopyPickSharingPane(st, pane) ==
    IF st.paneFirstPick = NilPane
    THEN Ret([st EXCEPT !.paneFirstPick = pane,
                        !.paneConfigHelpText = "Select destination for copy"], FALSE)
    ELSE LET node == NodeForPane(st.heap, st.DisplayRoot, pane)
         IN  IF node = NilNode THEN Ret(Panic(st), FALSE)
             ELSE Ret([st EXCEPT !.heap[node].Pane = st.paneFirstPick,
                                 !.paneFirstPick = NilPane,
                                 !.paneConfigHelpText = ""], TRUE)

\* The closure the "Copy" button returns.
CopyPick(st, pane) ==
    IF st.paneFirstPick = NilPane
    THEN Ret([st EXCEPT !.paneFirstPick = pane,
                        !.paneConfigHelpText = "Select destination for copy"], FALSE)
    ELSE LET node == NodeForPane(st.heap, st.DisplayRoot, pane)
             dup == DuplicatePane(st, st.paneFirstPick, TRUE)
         IN  IF node = NilNode THEN Ret(Panic(st), FALSE)
             ELSE Ret([dup.st EXCEPT !.heap[node].Pane = dup.pane,
                                     !.paneFirstPick = NilPane,
                                     !.paneConfigHelpText = ""], TRUE)

\* The Exchange closure giving the first leaf the pane of the second, and the
\* second leaf nothing new.
ExchangePickOneWay(st, pane) ==
    IF st.paneFirstPick = NilPane
    THEN Ret([st EXCEPT !.paneFirstPick = pane,
                        !.paneConfigHelpText = "Select second window for exchange"], FALSE)
    ELSE LET n0 == NodeForPane(st.heap, st.DisplayRoot, st.paneFirstPick)
             n1 == NodeForPane(st.heap, st.DisplayRoot, pane)
             cleared == [st EXCEPT !.paneFirstPick = NilPane, !.paneConfigHelpText = ""]
         IN  IF pane # st.paneFirstPick
             THEN IF n0 = NilNode \/ n1 = NilNode THEN Ret(Panic(st), FALSE)
                  ELSE Ret([cleared EXCEPT !.heap[n0].Pane = st.heap[n1].Pane], TRUE)
             ELSE Ret(cleared, TRUE)

\* The closure the "Exchange" button returns.
ExchangePick(st, pane) ==
    IF st.paneFirstPick = NilPane
    THEN Ret([st EXCEPT !.paneFirstPick = pane,
                        !.paneConfigHelpText = "Select second window for exchange"], FALSE)
    ELSE LET n0 == NodeForPane(st.heap, st.DisplayRoot, st.paneFirstPick)
             n1 == NodeForPane(st.heap, st.DisplayRoot, pane)
             cleared == [st EXCEPT !.paneFirstPick = NilPane, !.paneConfigHelpText = ""]
         IN  IF pane # st.paneFirstPick
             THEN IF n0 = NilNode \/ n1 = NilNode THEN Ret(Panic(st), FALSE)
                  ELSE Ret([cleared EXCEPT !.heap[n0].Pane = st.heap[n1].Pane,
                                           !.heap[n1].Pane = st.heap[n0].Pane], TRUE)
             ELSE Ret(cleared, TRUE)

\* handleSplitPick without its assignment node.Pane = nil.
SplitPickKeepingPane(st, axis, pane) ==
    LET node == NodeForPane(st.heap, st.DisplayRoot, pane)
        c0 == FreshNode1(st)
        c1 == FreshNode2(st)
        empty == FreshPane(st)
    IN  IF node = NilNode THEN Ret(Panic(st), FALSE)
        ELSE Ret([st EXCEPT
                    !.paneType[empty] = "EmptyPane",
                    !.paneName[empty] = NewPaneName("EmptyPane"),
                    !.heap = [st.heap EXCEPT
                                ![c0] = LeafNode(empty),
                                ![c1] = LeafNode(pane),
                                ![node] = [Pane |-> pane,
                                           SplitLine |-> [Pos |-> HalfPos, Axis |-> axis],
                                           Children |-> Children2(c0, c1)]],
                    !.paneConfigHelpText = ""], TRUE)

\* The closure handleSplitPick(axis) returns.
SplitPick(st, axis, pane) ==
    LET node == NodeForPane(st.heap, st.DisplayRoot, pane)
        c0 == FreshNode1(st)
        c1 == FreshNode2(st)
        empty == FreshPane(st)
    IN  IF node = NilNode THEN Ret(Panic(st), FALSE)
        ELSE Ret([st EXCEPT
                    !.paneType[empty] = "EmptyPane",
                    !.paneName[empty] = NewPaneName("EmptyPane"),
                    !.heap = [st.heap EXCEPT
                                ![c0] = LeafNode(empty),
                                ![c1] = LeafNode(pane),
                                ![node] = [Pane |-> NilPane,
                                           SplitLine |-> [Pos |-> HalfPos, Axis |-> axis],
                                           Children |-> Children2(c0, c1)]],
                    !.paneConfigHelpText = ""], TRUE)

\* The Delete closure overwriting the parent with the child that holds the
\* pane, not with the other one.
DeletePickSameChild(st, pane) ==
    LET r == ParentNodeForPane(st.heap, st.DisplayRoot, pane)
        node == r[1]
    IN  IF node = NilNode THEN Ret(Panic(st), FALSE)
        ELSE Ret([st EXCEPT !.heap[node] = st.heap[st.heap[node].Children[r[2]]],
                            !.paneConfigHelpText = ""], TRUE)

\* The Delete closure copying the other child's pane alone, not its split line
\* and children.
DeletePickPaneOnly(st, pane) ==
    LET r == ParentNodeForPane(st.heap, st.DisplayRoot, pane)
        node == r[1]
        other == 1 - r[2]
    IN  IF node = NilNode THEN Ret(Panic(st), FALSE)
        ELSE Ret([st EXCEPT !.heap[node].Pane = st.heap[st.heap[node].Children[other]].Pane,
                            !.paneConfigHelpText = ""], TRUE)

\* The closure the "Delete" button returns.
DeletePick(st, pane) ==
    LET r == ParentNodeForPane(st.heap, st.DisplayRoot, pane)
        node == r[1]
        other == 1 - r[2]
    IN  IF node = NilNode THEN Ret(Panic(st), FALSE)
        ELSE Ret([st EXCEPT !.heap[node] = st.heap[st.heap[node].Children[other]],
                            !.paneConfigHelpText = ""], TRUE)

\* The closure setPicked(newPane) returns.
SetPickedPick(st, newPane, pane) ==
    LET node == NodeForPane(st.heap, st.DisplayRoot, pane)
    IN  IF node = NilNode THEN Ret(Panic(st), FALSE)
        ELSE Ret([st EXCEPT !.heap[node].Pane = newPane,
                            !.paneCreatePrompt = "",
                            !.paneConfigHelpText = ""], TRUE)

\* The callbacks with the axes of the two split buttons exchanged.
ButtonCallbackAxesExchanged(st, name, pane) ==
    CASE name = "Copy" -> CopyPick(st, pane)
      [] name = "Exchange" -> ExchangePick(st, pane)
      [] name = "Split Horizontally" -> SplitPick(st, SplitAxisY, pane)
      [] name = "Split Vertically" -> SplitPick(st, SplitAxisX, pane)
      [] name = "Delete" -> DeletePick(st, pane)

\* callback(pane), for the callback of the button of that name.
ButtonCallback(st, name, pane) ==
    CASE name = "Copy" -> CopyPick(st, pane)
      [] name = "Exchange" -> ExchangePick(st, pane)
      [] name = "Split Horizontally" -> SplitPick(st, SplitAxisX, pane)
      [] name = "Split Vertically" -> SplitPick(st, SplitAxisY, pane)
      [] name = "Delete" -> DeletePick(st, pane)

\* The wrapper ModalButtonSet.Draw registers: active is cleared on success.
ClearActiveIfDone(r) ==
    IF r.done THEN Ret([r.st EXCEPT !.active = ""], TRUE) ELSE r

WrappedPick(st, name, pane) == ClearActiveIfDone(ButtonCallback(st, name, pane))

\* wm.handlePanePick(pane)
CallHandlePanePick(st, pane) ==
    IF st.handlePanePick.kind = "setPicked"
    THEN SetPickedPick(st, st.handlePanePick.newPane, pane)
    ELSE WrappedPick(st, st.handlePanePick.kind, pane)

\* ------------------------------------------------------------- wmDrawUI

\* Show callbacks that all return true.
ButtonShownAlways(st, name) == TRUE

\* The show callbacks given to wm.configButtons.Add.
ButtonShown(st, name) ==
    IF name \in {"Split Horizontally", "Split Vertically"} THEN TRUE
    ELSE st.heap[st.DisplayRoot].Children[0] # NilNode

\* The help text each button's callback sets when the button is pressed.
ButtonHelpText(name) ==
    CASE name = "Copy" -> "Select window to copy"
      [] name = "Exchange" -> "Select first window for exchange"
      [] name = "Split Horizontally" -> "Select window to split"
      [] name = "Split Vertically" -> "Select window to split"
      [] name = "Delete" -> "Select window to delete"

\* ModalButtonSet.Clear
ButtonsClear(st) == [st EXCEPT !.active = ""]

\* ModalButtonSet.Draw, the user pressing the (shown) button of that name.
ButtonsDraw(st, name) ==
    IF st.active = name
    THEN [st EXCEPT !.handlePanePick = NoHandler, !.active = ""]
    ELSE [st EXCEPT !.active = name,
                    !.paneFirstPick = NilPane,
                    !.paneConfigHelpText = ButtonHelpText(name),
                    !.handlePanePick = ButtonHandler(name)]

\* The prompt and the help text of the entries of the "Create New..." combo.
CreatePrompt(type) ==
    CASE type = "CLIPane" -> "Command-line interface"
      [] type = "EmptyPane" -> "Empty"
      [] type = "RadarScopePane" -> "Radar scope"
CreateHelpText(type) ==
    CASE type = "CLIPane" -> "Select location for new Command-line interface window"
      [] type = "EmptyPane" -> "Select location for new Empty window"
      [] type = "RadarScopePane" -> "Select location for new Radar scope window"

\* An entry of the "Create New..." combo is selected.
CreateNewSelected(st, type) ==
    LET new == FreshPane(st)
    IN  [st EXCEPT !.paneCreatePrompt = CreatePrompt(type),
                   !.paneConfigHelpText = CreateHelpText(type),
                   !.paneType[new] = type,
                   !.paneName[new] = NewPaneName(type),
                   !.handlePanePick = SetPickedHandler(new)]

\* The Cancel button (drawn while a handler is armed).
CancelPressed(st) ==
    ButtonsClear([st EXCEPT !.handlePanePick = NoHandler,
                            !.paneFirstPick = NilPane,
                            !.paneConfigHelpText = ""])

SavePressed(st) ==
    [st EXCEPT !.showConfigEditor = FALSE,
               !.paneConfigHelpText = "",
               !.editorBackupRoot = NilNode]

RevertPressed(st) ==
    [st EXCEPT !.DisplayRoot = st.editorBackupRoot,
               !.showConfigEditor = FALSE,
               !.paneConfigHelpText = "",
               !.editorBackupRoot = NilNode]

NoEvent == [type |-> "none", arg |-> ""]

\* Whether the editor draws, this frame, the widget the event is about.
EventPossible(st, ev) ==
    CASE ev.type = "none" -> TRUE
      [] ev.type = "button" -> st.showConfigEditor /\ ButtonShown(st, ev.arg)
      [] ev.type = "create" -> st.showConfigEditor
      [] ev.type = "cancel" -> st.showConfigEditor /\ st.handlePanePick # NoHandler
      [] ev.type = "save" -> st.showConfigEditor
      [] ev.type = "revert" -> st.showConfigEditor

\* wmDrawUI, the user acting on at most one widget of the config editor.
wmDrawUI(st, ev) ==
    LET s0 == [st EXCEPT !.topControlsHeight =
                  UITopControlsHeight
                  + (IF st.showConfigEditor THEN ConfigEditorHeight ELSE 0)]
    IN  CASE ev.type = "none" -> s0
          [] ev.type = "button" -> ButtonsDraw(s0, ev.arg)
          [] ev.type = "create" -> CreateNewSelected(s0, ev.arg)
          [] ev.type = "cancel" -> CancelPressed(s0)
          [] ev.type = "save" -> SavePressed(s0)
          [] ev.type = "revert" -> RevertPressed(s0)

\* ------------------------------------------------------------ wmDrawPanes

\* The last pane of the sequence that is of one of the types; nil if none.
RECURSIVE LastOfTypes(_, _, _)
LastOfTypes(st, seq, types) ==
    IF seq = <<>> THEN NilPane
    ELSE LET p == seq[Len(seq)]
         IN  IF p \in PaneIds /\ st.paneType[p] \in types THEN p
             ELSE LastOfTypes(st, SubSeq(seq, 1, Len(seq) - 1), types)

\* wmPaneIsPresent
wmPaneIsPresent(st, pane) == pane \in Range(VisitPanes(st.heap, st.DisplayRoot))

\* The first pane of the sequence that is of one of the types; nil if none.
RECURSIVE FirstOfTypes(_, _, _)
FirstOfTypes(st, seq, types) ==
    IF seq = <<>> THEN NilPane
    ELSE IF Head(seq) \in PaneIds /\ st.paneType[Head(seq)] \in types THEN Head(seq)
    ELSE FirstOfTypes(st, Tail(seq), types)

\* The focus with the loops stopping at their first match.
ResolveKeyboardFocusFirst(st) ==
    LET seq == VisitPanes(st.heap, st.DisplayRoot)
        kept == IF wmPaneIsPresent(st, st.keyboardFocusPane)
                THEN st.keyboardFocusPane ELSE NilPane
        cli == FirstOfTypes(st, seq, {"CLIPane"})
        any == FirstOfTypes(st, seq, {t \in PaneTypes : CanTakeKeyboardFocusType(t)})
    IN  IF kept # NilPane THEN kept
        ELSE IF cli # NilPane THEN cli
        ELSE any

\* The keyboard focus after the first lines of wmDrawPanes.
ResolveKeyboardFocus(st) ==
    LET seq == VisitPanes(st.heap, st.DisplayRoot)
        kept == IF wmPaneIsPresent(st, st.keyboardFocusPane)
                THEN st.keyboardFocusPane ELSE NilPane
        cli == LastOfTypes(st, seq, {"CLIPane"})
        any == LastOfTypes(st, seq, {t \in PaneTypes : CanTakeKeyboardFocusType(t)})
    IN  IF kept # NilPane THEN kept
        ELSE IF cli # NilPane THEN cli
        ELSE any

\* displayFull: the display below the top controls and the status bar.
DisplayFull(st) ==
    Extent(0, 0, DisplayW, DisplayH - (StatusBarHeight + st.topControlsHeight))

\* wmDrawPanes, first part: the keyboard focus is resolved, and Control-F
\* toggles the zoom.
wmDrawPanesFocus(st, io) ==
    [st EXCEPT !.keyboardFocusPane = ResolveKeyboardFocus(st),
               !.showPaneAsRoot = IF io.ctrlF THEN ~@ ELSE @]

\* findPaneForMouse(positionConfig.DisplayRoot, displayFull, mousePos), the
\* mouse position with its y flipped.
MouseHit(st, io) ==
    findPaneForMouse(st.heap, st.DisplayRoot, DisplayFull(st),
                     <<io.mouse[1], DisplayH - 1 - io.mouse[2]>>)

\* The zoom is engaged on the pane under the mouse, or reset; gives the state
\* and the local variable mousePane.
wmDrawPanesZoom(st, hit) ==
    IF st.showPaneAsRoot
    THEN IF st.nodeFilterUnset /\ ~IsSplitLine(hit) /\ hit # NilPane
         THEN [st |-> [st EXCEPT !.nodeFilterPane = hit, !.nodeFilterUnset = FALSE],
               mousePane |-> hit]
         ELSE [st |-> st, mousePane |-> NilPane]
    ELSE [st |-> IF ~st.nodeFilterUnset
                 THEN [st EXCEPT !.nodeFilterPane = NilPane, !.nodeFilterUnset = TRUE]
                 ELSE st,
          mousePane |-> hit]

\* The condition without the filter on split lines.
PickInvokedOnSplitLines(st, io, mousePane) ==
    /\ st.handlePanePick # NoHandler
    /\ io.clicked
    /\ mousePane # NilPane

\* The condition under which wm.handlePanePick(mousePane) is called.
PickInvoked(st, io, mousePane) ==
    /\ st.handlePanePick # NoHandler
    /\ io.clicked
    /\ mousePane # NilPane
    /\ ~IsSplitLine(mousePane)

\* The handler has been called and has returned r (or has panicked).
PickOutcome(mousePane, kind, r) ==
    [st |-> IF r.st.pc = "run" /\ r.done
            THEN [r.st EXCEPT !.handlePanePick = NoHandler]
            ELSE r.st,
     mousePane |-> mousePane, invoked |-> TRUE, kind |-> kind,
     done |-> r.st.pc = "run" /\ r.done]

\* The dispatch of a click to the armed handler.
wmDrawPanesPick(z, io) ==
    IF PickInvoked(z.st, io, z.mousePane)
    THEN PickOutcome(z.mousePane, z.st.handlePanePick.kind,
                     CallHandlePanePick(z.st, z.mousePane))
    ELSE [st |-> z.st, mousePane |-> z.mousePane, invoked |-> FALSE,
          kind |-> "nil", done |-> FALSE]

\* A click or a drag is active.
Acting(io) == io.clicked \/ io.other \/ io.dragging # "none"

\* The mouse override set to the pane under the mouse in every frame with a
\* click or a drag, whatever it was.
wmDrawPanesOverrideFollowingMouse(d, io) ==
    IF d.st.pc = "panic" THEN d
    ELSE [d EXCEPT !.st.mouseConsumerOverride =
             IF ~io.wantCaptureMouse /\ Acting(io) THEN d.mousePane ELSE NilPane]

\* The mouse override is cleared, then set.
wmDrawPanesOverride(d, io) ==
    LET \* io.other: a button other than the primary one has been clicked;
        \* io.dragging: the button that is dragging, if one is
        acting == Acting(io)
        cleared == IF io.wantCaptureMouse \/ ~acting
                   THEN NilPane ELSE d.st.mouseConsumerOverride
    IN  IF d.st.pc = "panic" THEN d
        ELSE [d EXCEPT !.st.mouseConsumerOverride =
                 IF ~io.wantCaptureMouse /\ acting /\ cleared = NilPane
                 THEN d.mousePane ELSE cleared]

\* wmDrawPanes up to the dispatch of the click. Gives the state and the local
\* variable mousePane.
wmDrawPanesMouse(st, io) == wmDrawPanesZoom(st, MouseHit(st, io))

\* ---- the render traversal

\* mouseInScope(mousePos, extent)
MouseInScope(io, extent) ==
    IF io.wantCaptureMouse THEN FALSE
    ELSE Inside(extent, <<io.mouse[1], DisplayH - 1 - io.mouse[2]>>)

\* ownsMouse without the test that no override is set.
OwnsMouseWhereverInScope(st, io, disp, pane) ==
    \/ st.mouseConsumerOverride = pane
    \/ /\ MouseInScope(io, disp)
       /\ ~io.wantCaptureMouse

\* ownsMouse, for the pane visited with display extent disp
OwnsMouse(st, io, disp, pane) ==
    \/ st.mouseConsumerOverride = pane
    \/ /\ st.mouseConsumerOverride = NilPane
       /\ MouseInScope(io, disp)
       /\ ~io.wantCaptureMouse

\* delta / extent, in hundredths (rounded towards zero); a division by zero
\* gives an infinity, which the clamp that follows brings back.
Ratio(delta, size) ==
    IF size = 0 THEN (IF delta > 0 THEN 100 ELSE IF delta < 0 THEN 0 - 100 ELSE 0)
    ELSE IF delta >= 0 THEN (100 * delta) \div size
    ELSE 0 - ((100 * (0 - delta)) \div size)

Clamp(x, lo, hi) == IF x < lo THEN lo ELSE IF x > hi THEN hi ELSE x

\* SplitLine.Draw without its clamp.
SplitLineDrawUnclamped(sl, owns, io, parentPaneExtent) ==
    IF owns /\ io.dragging = "secondary"
    THEN sl.Pos + (IF sl.Axis = SplitAxisX
                   THEN Ratio(io.delta[1], parentPaneExtent.p1[1] - parentPaneExtent.p0[1])
                   ELSE Ratio(io.delta[2], parentPaneExtent.p1[2] - parentPaneExtent.p0[2]))
    ELSE sl.Pos

\* SplitLine.Draw: s.Pos after it, for a context with the mouse (ctx.mouse is
\* set when the pane owns the mouse).
SplitLineDraw(sl, owns, io, parentPaneExtent) ==
    IF owns /\ io.dragging = "secondary"
    THEN Clamp(sl.Pos + (IF sl.Axis = SplitAxisX
                         THEN Ratio(io.delta[1], parentPaneExtent.p1[1] - parentPaneExtent.p0[1])
                         ELSE Ratio(io.delta[2], parentPaneExtent.p1[2] - parentPaneExtent.p0[2])),
               PosMin, PosMax)
    ELSE sl.Pos

\* pane.Draw(&ctx, &commandBuffer): the tree after it. The panes that are not
\* split lines draw without a change to the tree.
PaneDraw(h, pane, owns, io, parentDisp) ==
    IF IsSplitLine(pane)
    THEN [h EXCEPT ![SplitLineNode(pane)].SplitLine.Pos =
             SplitLineDraw(h[SplitLineNode(pane)].SplitLine, owns, io, parentDisp)]
    ELSE h

\* The visit function of the traversal, called on a pane: r holds the tree
\* and the visits made so far.
RenderVisited(r, owns, io, disp, parentDisp, pane) ==
    [heap |-> PaneDraw(r.heap, pane, owns, io, parentDisp),
     visits |-> Append(r.visits, [disp |-> disp, parent |-> parentDisp, pane |-> pane,
                                  ownsMouse |-> owns])]

RenderVisit(r, st, io, disp, parentDisp, pane) ==
    RenderVisited(r, OwnsMouse(st, io, disp, pane), io, disp, parentDisp, pane)

RECURSIVE RenderNode(_, _, _, _, _, _)
RECURSIVE RenderSplit(_, _, _, _, _, _)
\* d.Children[1].VisitPanesWithBounds(...), after the visit of the split line
RenderSecond(r, st, io, d, d1, displayExtent) ==
    RenderNode(r, st, io, r.heap[d].Children[1], d1, displayExtent)

\* The second child visited with the extent its split line has after the
\* visit of the split line, not the one computed before it.
RenderSecondRecomputed(r, st, io, d, displayExtent) ==
    RenderNode(r, st, io, r.heap[d].Children[1],
               ExtentSplit(displayExtent, r.heap[d].SplitLine.Axis,
                           r.heap[d].SplitLine.Pos, SplitLineWidth)[3],
               displayExtent)
RenderSplitRecomputing(r, st, io, d, s, displayExtent) ==
    RenderSecondRecomputed(
        RenderVisit(RenderNode(r, st, io, r.heap[d].Children[0], s[1], displayExtent),
                    st, io, s[2], displayExtent, SplitLinePane(d)),
        st, io, d, displayExtent)

\* The three steps of VisitPanesWithBounds on an internal node, the extents
\* s = <<d0, ds, d1>> computed first.
RenderSplit(r, st, io, d, s, displayExtent) ==
    RenderSecond(
        RenderVisit(RenderNode(r, st, io, r.heap[d].Children[0], s[1], displayExtent),
                    st, io, s[2], displayExtent, SplitLinePane(d)),
        st, io, d, s[3], displayExtent)

\* d.VisitPanesWithBounds(identity filter, ...) with the visit function of
\* wmDrawPanes.
RenderNode(r, st, io, d, displayExtent, parentDisplayExtent) ==
    IF r.heap[d].SplitLine.Axis = SplitAxisNone
    THEN RenderVisit(r, st, io, displayExtent, parentDisplayExtent, r.heap[d].Pane)
    ELSE RenderSplit(r, st, io, d,
                     ExtentSplit(displayExtent, r.heap[d].SplitLine.Axis,
                                 r.heap[d].SplitLine.Pos, SplitLineWidth),
                     displayExtent)

\* The render traversal of wmDrawPanes with wm.nodeFilter: the tree after it
\* and the visits it made. The zoom filter gives &DisplayNode{Pane: pane} for
\* every node, a leaf.
RenderTraversal(st, io) ==
    IF st.nodeFilterUnset
    THEN RenderNode([heap |-> st.heap, visits |-> <<>>], st, io, st.DisplayRoot,
                    DisplayFull(st), DisplayFull(st))
    ELSE RenderVisit([heap |-> st.heap, visits |-> <<>>], st, io,
                     DisplayFull(st), DisplayFull(st), st.nodeFilterPane)

\* wmDrawPanes, last part: the panes are drawn.
wmDrawPanesRender(d, io) ==
    IF d.st.pc = "panic" THEN d
    ELSE [d EXCEPT !.st.heap = RenderTraversal(d.st, io).heap]

\* Gives the state, the local variable mousePane, and what was called.
wmDrawPanes(st, io) ==
    wmDrawPanesRender(
        wmDrawPanesOverride(
            wmDrawPanesPick(wmDrawPanesMouse(wmDrawPanesFocus(st, io), io), io), io), io)

\* ---------------------------------------------------------------- a frame

\* The tree below r alone.
TreeOf(h, r) ==
    LET nodes == Reach(h, r)
    IN  [n \in NodeIds |-> IF n \in nodes THEN h[n] ELSE ZeroNode]

\* What the frame was given and what it called: the widget acted on, whether
\* the primary button was clicked, the keyboard focus it started with, whether
\* the pick handler was called, which it was, on which pane, with which first
\* pick, and whether it returned true.
WithLastFrame(st, d, ev, io) ==
    [d EXCEPT !.st.lastFrame =
        [ui |-> IF ev.type = "button" THEN ev.arg ELSE ev.type,
         clicked |-> io.clicked, other |-> io.other, dragging |-> io.dragging,
         focus |-> st.keyboardFocusPane,
         invoked |-> d.invoked, kind |-> d.kind,
         pane |-> IF d.invoked THEN d.mousePane ELSE NilPane,
         first |-> IF d.invoked THEN st.paneFirstPick ELSE NilPane,
         done |-> d.done]]

\* One frame of the main loop: wmDrawUI, then wmDrawPanes.
RawFrame(st, ev, io) == WithLastFrame(st, wmDrawPanes(wmDrawUI(st, ev), io), ev, io)

Frame(st, ev, io) == Canonical(RawFrame(st, ev, io).st)

LeafCount(st) == Cardinality(Leaves(st.heap, st.DisplayRoot))

\* The centre of an extent, as imgui.MousePos reports it (y grows downwards).
CentreOf(e) == << (e.p0[1] + e.p1[1]) \div 2, DisplayH - 1 - (e.p0[2] + e.p1[2]) \div 2 >>

\* The centre of every pane and split line of the layout the frame will
\* draw, and a point on the top controls.
LayoutPoints(st) ==
    LET full == Extent(0, 0, DisplayW,
                       DisplayH - (StatusBarHeight + UITopControlsHeight
                                   + (IF st.showConfigEditor THEN ConfigEditorHeight ELSE 0)))
        seq == VisitPanesWithBounds(st.heap, st.DisplayRoot, full, full, full)
    IN  {CentreOf(seq[i].disp) : i \in 1..Len(seq)} \cup {<<0, 0>>}

\* The mouse positions tried.
MousePoints == LayoutPoints(State)

\* The mouse is on the config editor's window, no button of it just pressed.
OnEditor == [mouse |-> <<0, 0>>, clicked |-> FALSE, other |-> FALSE,
             dragging |-> "none", delta |-> <<0, 0>>,
             wantCaptureMouse |-> TRUE, ctrlF |-> FALSE]

\* The main loop runs one frame (until the program has panicked). The layout
\* is kept to MaxLeaves panes.
Step(ev, io) ==
    \E next \in {Frame(State, ev, io)} :
        /\ LeafCount(next) <= MaxLeaves
        /\ Install(next)

\* A frame in which the user acts on no widget: the mouse moves or clicks.
\* imgui reports a button as clicked in the frame it goes down only, so a
\* frame with a click does not follow one.
MouseFrame(clicks, others, wants, ctrlFs) ==
    \E m \in MousePoints, clicked \in clicks, other \in others,
       want \in wants, ctrlF \in ctrlFs :
        /\ clicked => ~lastFrame.clicked
        /\ Step(NoEvent, [mouse |-> m, clicked |-> clicked, other |-> other,
                          dragging |-> "none", delta |-> <<0, 0>>,
                          wantCaptureMouse |-> want, ctrlF |-> ctrlF])

\* The user moves the mouse over the panes or clicks on them with the primary
\* button, while editing the layout.
FrameMouse ==
    /\ pc = "run"
    /\ MouseFrame(BOOLEAN, {FALSE}, {FALSE}, {FALSE})

ButtonEvent(name) == [type |-> "button", arg |-> name]
CreateEvent(type) == [type |-> "create", arg |-> type]
CancelEvent == [type |-> "cancel", arg |-> ""]
SaveEvent == [type |-> "save", arg |-> ""]
RevertEvent == [type |-> "revert", arg |-> ""]

\* A frame in which the user presses one of the config buttons.
FrameButton ==
    \E i \in 1..Len(ButtonNames) :
        /\ pc = "run"
        /\ EventPossible(State, ButtonEvent(ButtonNames[i]))
        /\ Step(ButtonEvent(ButtonNames[i]), OnEditor)

\* A frame in which the user selects an entry of the "Create New..." combo.
FrameCreateNew ==
    \E t \in CreateTypes :
        /\ pc = "run"
        /\ EventPossible(State, CreateEvent(t))
        /\ Step(CreateEvent(t), OnEditor)

\* A frame in which the user presses Cancel.
FrameCancel ==
    /\ pc = "run"
    /\ EventPossible(State, CancelEvent)
    /\ Step(CancelEvent, OnEditor)

\* A frame in which the user presses Save.
FrameSave ==
    /\ pc = "run"
    /\ EventPossible(State, SaveEvent)
    /\ Step(SaveEvent, OnEditor)

\* A frame in which the user presses Revert.
FrameRevert ==
    /\ pc = "run"
    /\ EventPossible(State, RevertEvent)
    /\ Step(RevertEvent, OnEditor)

\* ------------------------------------------------------------------- Init

\* A tree of one leaf at node r, its pane p of type t.
OneLeaf(r, p) == (r :> LeafNode(p))
\* A tree of two leaves: node r split along axis, children r+1 and r+2.
TwoLeaves(r, axis, p0, p1) ==
    (r :> [Pane |-> NilPane, SplitLine |-> [Pos |-> HalfPos, Axis |-> axis],
           Children |-> Children2(r + 1, r + 2)])
    @@ (r + 1 :> LeafNode(p0)) @@ (r + 2 :> LeafNode(p1))

HeapOf(f) == [n \in NodeIds |-> IF n \in DOMAIN f THEN f[n] ELSE ZeroNode]
TypesOf(f) == [p \in PaneIds |-> IF p \in DOMAIN f THEN f[p] ELSE "none"]
\* Every pane with the name of a new pane of its type.
NamesOf(types) == [p \in PaneIds |-> NewPaneName(types[p])]

\* The state of wm after wmInit, but for the fields the conjuncts of an
\* initial state set.
InitWm ==
    /\ paneFirstPick = NilPane
    /\ handlePanePick = NoHandler
    /\ paneCreatePrompt = ""
    /\ paneConfigHelpText = ""
    /\ active = ""
    /\ showPaneAsRoot = FALSE
    /\ nodeFilterUnset = TRUE
    /\ nodeFilterPane = NilPane
    /\ mouseConsumerOverride = NilPane
    /\ keyboardFocusStack = <<>>
    /\ showPaneSettings = <<>>
    /\ showPaneName = <<>>
    /\ lastCall = NoCall
    /\ pc = "run"
    /\ lastFrame = NoFrame

\* The config editor has just been opened on a layout of one or two empty
\* panes; the backup is a duplicate of the tree, with nodes and panes of its
\* own.
Init ==
    /\ InitWm
    /\ \/ /\ heap = HeapOf(OneLeaf(1, 1) @@ OneLeaf(2, 2))
          /\ paneType = TypesOf((1 :> "EmptyPane") @@ (2 :> "EmptyPane"))
          /\ DisplayRoot = 1
          /\ editorBackupRoot = 2
       \/ /\ heap = HeapOf(TwoLeaves(1, SplitAxisX, 1, 2) @@ TwoLeaves(4, SplitAxisX, 3, 4))
          /\ paneType = TypesOf((1 :> "EmptyPane") @@ (2 :> "EmptyPane")
                                @@ (3 :> "EmptyPane") @@ (4 :> "EmptyPane"))
          /\ DisplayRoot = 1
          /\ editorBackupRoot = 4
    /\ showConfigEditor = TRUE
    /\ topControlsHeight = UITopControlsHeight + ConfigEditorHeight
    /\ keyboardFocusPane = NilPane
    /\ paneName = NamesOf(paneType)

Next ==
    \/ FrameMouse
    \/ FrameButton
    \/ FrameCreateNew
    \/ FrameCancel
    \/ FrameSave
    \/ FrameRevert

Spec == Init /\ [][Next]_vars

\* ------------------------------------------- keyboard focus, on any layout

\* Trees of three leaves, nodes in preorder: ((p0 p1) p2) and (p0 (p1 p2)).
ThreeLeavesLeft(a1, a2, p0, p1, p2) ==
    (1 :> [Pane |-> NilPane, SplitLine |-> [Pos |-> HalfPos, Axis |-> a1],
           Children |-> Children2(2, 5)])
    @@ (2 :> [Pane |-> NilPane, SplitLine |-> [Pos |-> HalfPos, Axis |-> a2],
              Children |-> Children2(3, 4)])
    @@ (3 :> LeafNode(p0)) @@ (4 :> LeafNode(p1)) @@ (5 :> LeafNode(p2))
ThreeLeavesRight(a1, a2, p0, p1, p2) ==
    (1 :> [Pane |-> NilPane, SplitLine |-> [Pos |-> HalfPos, Axis |-> a1],
           Children |-> Children2(2, 3)])
    @@ (2 :> LeafNode(p0))
    @@ (3 :> [Pane |-> NilPane, SplitLine |-> [Pos |-> HalfPos, Axis |-> a2],
              Children |-> Children2(4, 5)])
    @@ (4 :> LeafNode(p1)) @@ (5 :> LeafNode(p2))

\* The editor is closed; the layout is any tree of up to three panes of any
\* of the pane types; the keyboard focus is none, a pane of the tree, a pane
\* that is no longer in the tree (pane 4) or a split line.
InitFocus ==
    /\ InitWm
    /\ DisplayRoot = 1
    /\ editorBackupRoot = NilNode
    /\ showConfigEditor = FALSE
    /\ topControlsHeight = UITopControlsHeight
    /\ keyboardFocusPane \in {NilPane, 1, 2, 3, 4, SplitLinePane(1)}
    /\ \E t0 \in PaneTypes, t1 \in PaneTypes, t2 \in PaneTypes, t3 \in PaneTypes :
          \E gone \in {IF keyboardFocusPane = 4 THEN (4 :> t3) ELSE (4 :> "none")} :
             \/ /\ heap = HeapOf(OneLeaf(1, 1))
                /\ paneType = TypesOf((1 :> t0) @@ gone)
             \/ /\ heap = HeapOf(TwoLeaves(1, SplitAxisX, 1, 2))
                /\ paneType = TypesOf((1 :> t0) @@ (2 :> t1) @@ gone)
             \/ /\ heap = HeapOf(ThreeLeavesLeft(SplitAxisX, SplitAxisY, 1, 2, 3))
                /\ paneType = TypesOf((1 :> t0) @@ (2 :> t1) @@ (3 :> t2) @@ gone)
             \/ /\ heap = HeapOf(ThreeLeavesRight(SplitAxisY, SplitAxisX, 1, 2, 3))
                /\ paneType = TypesOf((1 :> t0) @@ (2 :> t1) @@ (3 :> t2) @@ gone)
    /\ keyboardFocusPane > 0 => paneType[keyboardFocusPane] # "none"
    /\ paneName = NamesOf(paneType)

\* A frame in which the mouse moves over the panes.
FrameMove ==
    /\ pc = "run"
    /\ MouseFrame({FALSE}, {FALSE}, {FALSE}, {FALSE})

NextFocus == FrameMove

SpecFocus == InitFocus /\ [][NextFocus]_vars

\* --------------------------------- the mouse over the panes, editor closed

\* A quarter of the display along each axis: the distance a drag moves the
\* mouse in a frame.
DragX == DisplayW \div 4
DragY == (DisplayH - (StatusBarHeight + UITopControlsHeight)) \div 4
Deltas == { <<DragX, DragY>>, <<0 - DragX, 0 - DragY>> }

\* The editor is closed; the layout is a tree of two or three panes, a CLI
\* pane, an empty pane and a radar scope.
InitPanes ==
    /\ InitWm
    /\ DisplayRoot = 1
    /\ editorBackupRoot = NilNode
    /\ showConfigEditor = FALSE
    /\ topControlsHeight = UITopControlsHeight
    /\ keyboardFocusPane = NilPane
    /\ \/ /\ heap = HeapOf(TwoLeaves(1, SplitAxisX, 1, 2))
          /\ paneType = TypesOf((1 :> "CLIPane") @@ (2 :> "EmptyPane"))
       \/ /\ heap = HeapOf(ThreeLeavesLeft(SplitAxisX, SplitAxisY, 1, 2, 3))
          /\ paneType = TypesOf((1 :> "CLIPane") @@ (2 :> "EmptyPane")
                                @@ (3 :> "RadarScopePane"))
       \/ /\ heap = HeapOf(ThreeLeavesRight(SplitAxisY, SplitAxisX, 1, 2, 3))
          /\ paneType = TypesOf((1 :> "CLIPane") @@ (2 :> "EmptyPane")
                                @@ (3 :> "RadarScopePane"))
    /\ paneName = NamesOf(paneType)

\* The button the last frame left held down: the one it clicked, or the one
\* that was dragging.
HeldButton ==
    IF lastFrame.clicked THEN "primary"
    ELSE IF lastFrame.other THEN "secondary"
    ELSE lastFrame.dragging

PointerInput(m, clicked, other, dragging, delta, want, ctrlF) ==
    [mouse |-> m, clicked |-> clicked, other |-> other, dragging |-> dragging,
     delta |-> delta, wantCaptureMouse |-> want, ctrlF |-> ctrlF]

\* The mouse moves over the panes with no button down, or the primary or the
\* secondary button goes down (one button at a time).
PointerInputs ==
    {PointerInput(m, press = "primary", press = "secondary", "none", <<0, 0>>, FALSE, FALSE) :
        m \in MousePoints,
        press \in IF HeldButton = "none" THEN {"none", "primary", "secondary"} ELSE {"none"}}

\* The button that went down is still held: imgui reports a drag with it (the
\* threshold is 0).
DragInputs ==
    IF HeldButton = "none" THEN {}
    ELSE {PointerInput(m, FALSE, FALSE, HeldButton, delta, FALSE, FALSE) :
             m \in MousePoints, delta \in Deltas}

\* Control-F is pressed, the mouse over the panes.
ControlFInputs ==
    IF HeldButton # "none" THEN {}
    ELSE {PointerInput(m, FALSE, FALSE, "none", <<0, 0>>, FALSE, TRUE) : m \in MousePoints}

\* imgui wants the mouse (it is over a window or a menu of the user
\* interface), whatever the buttons do.
ChromeInputs ==
    {PointerInput(m, clicked, FALSE, IF clicked THEN "none" ELSE HeldButton,
                  <<0, 0>>, TRUE, FALSE) :
        m \in MousePoints,
        clicked \in IF HeldButton = "none" THEN BOOLEAN ELSE {FALSE}}

FramePointer ==
    \E io \in PointerInputs :
        /\ pc = "run"
        /\ Step(NoEvent, io)

FrameDrag ==
    \E io \in DragInputs :
        /\ pc = "run"
        /\ Step(NoEvent, io)

FrameControlF ==
    \E io \in ControlFInputs :
        /\ pc = "run"
        /\ Step(NoEvent, io)

FrameChrome ==
    \E io \in ChromeInputs :
        /\ pc = "run"
        /\ Step(NoEvent, io)

NextPanes ==
    \/ FramePointer
    \/ FrameDrag
    \/ FrameControlF
    \/ FrameChrome

SpecPanes == InitPanes /\ [][NextPanes]_vars

\* ----------------------------------- the functions of a tree, called alone

\* SplitLine.Name(), and Pane.Name() of the other panes.
NameOfPane(names, pane) == IF IsSplitLine(pane) THEN "Split Line" ELSE names[pane]

\* An allocation record a = [heap, paneType, paneName, nodes, panes]: nodes
\* and panes are the identities in use, a new one is one not in use.

\* dupe.Pane = d.Pane, the pane of the source itself.
DuplicateLeafPaneShared(a, dupe, pane) ==
    IF pane = NilPane THEN a ELSE [a EXCEPT !.heap[dupe].Pane = pane]

\* if d.Pane != nil { dupe.Pane = d.Pane.Duplicate(false) }
DuplicateLeafPane(a, dupe, pane) ==
    IF pane = NilPane THEN a
    ELSE LET new == Min(PaneIds \ a.panes)
         IN  [a EXCEPT !.panes = @ \cup {new},
                       !.paneType[new] = a.paneType[pane],
                       !.paneName[new] = DuplicateName(a.paneType[pane],
                                                       a.paneName[pane], FALSE),
                       !.heap[dupe].Pane = new]

RECURSIVE Duplicate(_, _)
\* DisplayNode.Duplicate: [a |-> the allocation record after it, node |-> dupe]
Duplicate(a, d) ==
    LET dupe == Min(NodeIds \ a.nodes)
        a1 == DuplicateLeafPane([a EXCEPT !.nodes = @ \cup {dupe}, !.heap[dupe] = ZeroNode],
                                dupe, a.heap[d].Pane)
        a2 == [a1 EXCEPT !.heap[dupe].SplitLine = a.heap[d].SplitLine]
    IN  IF a.heap[d].SplitLine.Axis = SplitAxisNone THEN [a |-> a2, node |-> dupe]
        ELSE LET c0 == Duplicate(a2, a.heap[d].Children[0])
                 c1 == Duplicate(c0.a, a.heap[d].Children[1])
             IN  [a |-> [c1.a EXCEPT !.heap[dupe].Children = Children2(c0.node, c1.node)],
                  node |-> dupe]

\* The fractions a split line is given.
TreePos == {PosMin, 30, HalfPos, PosMax}

\* The types of panes 1, 2 and 3: all different, or all the same.
TreeTypes == { <<"CLIPane", "EmptyPane", "RadarScopePane">>,
               <<"EmptyPane", "EmptyPane", "EmptyPane">> }

\* The trees of up to three leaves, along either axis, at any of the
\* fractions.
TreeHeaps ==
    LET SetPos(h, n, pos) == [h EXCEPT ![n].SplitLine.Pos = pos]
    IN
    {HeapOf(OneLeaf(1, 1))}
    \cup {SetPos(HeapOf(TwoLeaves(1, a1, 1, 2)), 1, q1) :
            a1 \in {SplitAxisX, SplitAxisY}, q1 \in TreePos}
    \cup {SetPos(SetPos(HeapOf(ThreeLeavesLeft(a[1], a[2], 1, 2, 3)), 1, q[1]), 2, q[2]) :
            a \in {SplitAxisX, SplitAxisY} \X {SplitAxisX, SplitAxisY}, q \in TreePos \X TreePos}
    \cup {SetPos(SetPos(HeapOf(ThreeLeavesRight(a[1], a[2], 1, 2, 3)), 1, q[1]), 3, q[2]) :
            a \in {SplitAxisX, SplitAxisY} \X {SplitAxisX, SplitAxisY}, q \in TreePos \X TreePos}

\* The editor is closed; the layout is any of the trees.
InitTree ==
    /\ InitWm
    /\ DisplayRoot = 1
    /\ editorBackupRoot = NilNode
    /\ showConfigEditor = FALSE
    /\ topControlsHeight = UITopControlsHeight
    /\ keyboardFocusPane = NilPane
    /\ heap \in TreeHeaps
    /\ \E types \in TreeTypes :
          paneType = [p \in PaneIds |-> IF p \in LeafPanes(heap, 1) THEN types[p] ELSE "none"]
    /\ paneName = NamesOf(paneType)

\* The roots of the trees in memory: every node in use is the root of one.
TreeRoots == {n \in NodeIds : heap[n] # ZeroNode}
\* The panes to look for: every pane in memory, and every split line.
PaneArgs == {p \in PaneIds : paneType[p] # "none"} \cup {SplitLinePane(n) : n \in TreeRoots}

\* A display rectangle of a few pixels, away from the origin.
SmallExtent == Extent(2, 3, 14, 13)
\* The rectangles and points findPaneForMouse is called with: every point
\* of the small rectangle and the points next to it; in the display, the
\* middle of every pane and split line of the layout and points at the
\* corners.
FindArgs ==
    LET PointsAround(e) == ((e.p0[1] - 1)..e.p1[1]) \X ((e.p0[2] - 1)..e.p1[2])
        MiddleOf(e) == << (e.p0[1] + e.p1[1]) \div 2, (e.p0[2] + e.p1[2]) \div 2 >>
        full == DisplayFull(State)
        seq == VisitPanesWithBounds(heap, DisplayRoot, full, full, full)
    IN  {[extent |-> SmallExtent, p |-> q] : q \in PointsAround(SmallExtent)}
        \cup {[extent |-> full, p |-> q] :
                 q \in {MiddleOf(seq[i].disp) : i \in 1..Len(seq)}
                       \cup {full.p0, full.p1, <<full.p0[1] - 1, full.p0[2]>>}}

\* State with the call recorded.
Called(call) == Install([State EXCEPT !.lastCall = call])

\* One function is called on the tree, or on the tree once it has been
\* duplicated.
MayCall == pc = "run" /\ lastCall.fn \in {"", "Duplicate"}

CallNodeForPane ==
    \E d \in TreeRoots : \E pane \in PaneArgs :
        /\ MayCall
        /\ Called([fn |-> "NodeForPane", d |-> d, pane |-> pane,
                   result |-> NodeForPane(heap, d, pane)])

CallVisitPanes ==
    \E d \in TreeRoots :
        /\ MayCall
        /\ Called([fn |-> "VisitPanes", d |-> d, result |-> VisitPanes(heap, d)])

CallVisitPanesWithBounds ==
    \E d \in TreeRoots : \E e \in {SmallExtent, DisplayFull(State)} :
        /\ MayCall
        /\ Called([fn |-> "VisitPanesWithBounds", d |-> d, extent |-> e,
                   result |-> VisitPanesWithBounds(heap, d, e, e, e)])

CallFindPaneForMouse ==
    \E arg \in FindArgs :
        /\ MayCall
        /\ Called([fn |-> "findPaneForMouse", d |-> DisplayRoot,
                   extent |-> arg.extent, p |-> arg.p,
                   result |-> findPaneForMouse(heap, DisplayRoot, arg.extent, arg.p)])

\* DisplayRoot.Duplicate(): the nodes and panes of the result are new.
CallDuplicate ==
    \E r \in {Duplicate([heap |-> heap, paneType |-> paneType, paneName |-> paneName,
                         nodes |-> LiveNodes(State), panes |-> LivePanes(State)],
                        DisplayRoot)} :
        /\ pc = "run" /\ lastCall.fn = ""
        /\ Install([State EXCEPT !.heap = r.a.heap, !.paneType = r.a.paneType,
                                 !.paneName = r.a.paneName,
                                 !.lastCall = [fn |-> "Duplicate", d |-> DisplayRoot,
                                               result |-> r.node]])

\* d.SplitX(x, newChild) or d.SplitY(x, newChild), newChild a new leaf with a
\* new empty pane; made is the node the call returns, put at a new address.
SplitCalled(fn, d, x, newChild, result, made) ==
    \E pane \in {FreshPane(State)} :
        Install([State EXCEPT !.heap[newChild] = LeafNode(pane),
                              !.heap[result] = made,
                              !.paneType[pane] = "EmptyPane",
                              !.paneName[pane] = NewPaneName("EmptyPane"),
                              !.lastCall = [fn |-> fn, d |-> d, x |-> x,
                                            newChild |-> newChild, result |-> result]])

CallSplitX ==
    /\ pc = "run" /\ lastCall.fn = ""
    /\ \E d \in TreeRoots : \E x \in TreePos :
       \E n \in {Min(NodeIds \ TreeRoots)} : \E r \in {Min(NodeIds \ (TreeRoots \cup {n}))} :
          SplitCalled("SplitX", d, x, n, r, SplitX(d, x, n))

CallSplitY ==
    /\ pc = "run" /\ lastCall.fn = ""
    /\ \E d \in TreeRoots : \E y \in TreePos :
       \E n \in {Min(NodeIds \ TreeRoots)} : \E r \in {Min(NodeIds \ (TreeRoots \cup {n}))} :
          SplitCalled("SplitY", d, y, n, r, SplitY(d, y, n))

NextTree ==
    \/ CallSplitX
    \/ CallSplitY
    \/ CallNodeForPane
    \/ CallVisitPanes
    \/ CallVisitPanesWithBounds
    \/ CallFindPaneForMouse
    \/ CallDuplicate

SpecTree == InitTree /\ [][NextTree]_vars

\* --------------------------------------------- the active configuration

\* wmAddPaneMenuSettings, the menu item of the pane picked clicked (of none:
\* no item is clicked). The menu has an item for each pane of the layout that
\* is a PaneUIDrawer: of the pane types here, all but the empty pane.
wmAddPaneMenuSettings(st, picked) ==
    IF picked \in {p \in Range(VisitPanes(st.heap, st.DisplayRoot)) \cap PaneIds :
                      st.paneType[p] # "EmptyPane"}
    THEN [st EXCEPT !.showPaneName = (picked :> st.paneName[picked])
                                        @@ st.showPaneName,
                    !.showPaneSettings = (picked :> TRUE) @@ st.showPaneSettings,
                    !.lastCall = [fn |-> "wmAddPaneMenuSettings", pane |-> picked]]
    ELSE st

\* wmActivateNewConfig without the reset of the two maps.
wmActivateNewConfigKeepingMaps(st, old, nw, cs) ==
    LET calls(op, d, c) == [i \in 1..Len(VisitPanes(st.heap, d)) |->
                              [op |-> op, pane |-> VisitPanes(st.heap, d)[i], cs |-> c]]
    IN  [st EXCEPT !.keyboardFocusPane = NilPane,
                   !.lastCall = [fn |-> "wmActivateNewConfig",
                                 old |-> old, nw |-> nw, cs |-> cs,
                                 calls |-> (IF old = NilNode THEN <<>>
                                            ELSE calls("Deactivate", old, ""))
                                           \o calls("Activate", nw, cs)]]

\* wmActivateNewConfig(old, nw, cs), old and nw by their DisplayRoot (old nil:
\* no configuration was active). calls: the calls of Deactivate and Activate
\* made on the panes and split lines, in the order they are made.
wmActivateNewConfig(st, old, nw, cs) ==
    LET calls(op, d, c) == [i \in 1..Len(VisitPanes(st.heap, d)) |->
                              [op |-> op, pane |-> VisitPanes(st.heap, d)[i], cs |-> c]]
    IN  [st EXCEPT !.showPaneSettings = <<>>,
                   !.showPaneName = <<>>,
                   !.keyboardFocusPane = NilPane,
                   !.lastCall = [fn |-> "wmActivateNewConfig",
                                 old |-> old, nw |-> nw, cs |-> cs,
                                 calls |-> (IF old = NilNode THEN <<>>
                                            ELSE calls("Deactivate", old, ""))
                                           \o calls("Activate", nw, cs)]]

\* wmTakeKeyboardFocus(pane, isTransient)
wmTakeKeyboardFocus(st, pane, isTransient) ==
    IF st.keyboardFocusPane = pane THEN st
    ELSE [st EXCEPT !.keyboardFocusStack =
                        IF ~isTransient THEN <<>>
                        ELSE IF st.keyboardFocusPane # NilPane
                             THEN Append(@, st.keyboardFocusPane)
                             ELSE @,
                    !.keyboardFocusPane = pane]

\* wmReleaseKeyboardFocus()
wmReleaseKeyboardFocus(st) ==
    IF Len(st.keyboardFocusStack) > 0
    THEN [st EXCEPT !.keyboardFocusPane = st.keyboardFocusStack[Len(st.keyboardFocusStack)],
                    !.keyboardFocusStack = SubSeq(@, 1, Len(@) - 1)]
    ELSE st

\* The editor is closed; there are two configurations, the active one with a
\* layout of two or three panes at node 1, the other with a layout of one or
\* two panes at node 6; the keyboard focus is none or a pane of the layout.
InitConfig ==
    /\ InitWm
    /\ DisplayRoot = 1
    /\ editorBackupRoot = NilNode
    /\ showConfigEditor = FALSE
    /\ topControlsHeight = UITopControlsHeight
    /\ keyboardFocusPane \in {NilPane, 1, 2}
    /\ \E a \in {TwoLeaves(1, SplitAxisX, 1, 2),
                 ThreeLeavesLeft(SplitAxisX, SplitAxisY, 1, 2, 3),
                 ThreeLeavesRight(SplitAxisY, SplitAxisX, 1, 2, 3)} :
       \E b \in {OneLeaf(6, 4), TwoLeaves(6, SplitAxisY, 4, 5)} :
          /\ heap = HeapOf(a @@ b)
          /\ paneType = [p \in PaneIds |->
                            IF p \in LeafPanes(heap, 1) \cup LeafPanes(heap, 6)
                            THEN <<"CLIPane", "RadarScopePane", "RadarScopePane",
                                   "RadarScopePane", "EmptyPane">>[p]
                            ELSE "none"]
    /\ paneName = NamesOf(paneType)

\* The user picks the settings of a pane in the menu.
MenuItemPicked ==
    \E picked \in LeafPanes(heap, DisplayRoot) :
        /\ pc = "run"
        /\ Install(wmAddPaneMenuSettings(State, picked))

\* A configuration is activated: the first (nothing was active), another one
\* or the same again, with one of two color schemes.
ActivateNewConfig ==
    \E old \in {NilNode, 1, 6} : \E nw \in {1, 6} : \E cs \in {"light", "dark"} :
        /\ pc = "run"
        /\ Install(wmActivateNewConfig(State, old, nw, cs))

\* A pane of the layout takes the keyboard focus, for good or for a while.
TakeKeyboardFocus ==
    \E pane \in LeafPanes(heap, DisplayRoot) : \E isTransient \in BOOLEAN :
        /\ pc = "run"
        /\ Len(keyboardFocusStack) < MaxStack
        /\ Install([wmTakeKeyboardFocus(State, pane, isTransient) EXCEPT
                       !.lastCall = [fn |-> "wmTakeKeyboardFocus", pane |-> pane,
                                     isTransient |-> isTransient]])

\* The pane that took the keyboard focus gives it back.
ReleaseKeyboardFocus ==
    /\ pc = "run"
    /\ Install([wmReleaseKeyboardFocus(State) EXCEPT
                   !.lastCall = [fn |-> "wmReleaseKeyboardFocus"]])

NextConfig ==
    \/ MenuItemPicked
    \/ ActivateNewConfig
    \/ TakeKeyboardFocus
    \/ ReleaseKeyboardFocus

SpecConfig == InitConfig /\ [][NextConfig]_vars

\* ------------------------------------------------ the zoom, while editing

\* The config editor has just been opened on a layout of two panes; the user
\* moves the mouse and presses its buttons, presses Control-F, drags, and
\* leaves the editor by Revert.
InitZoom == Init /\ heap[DisplayRoot].SplitLine.Axis # SplitAxisNone

NextZoom ==
    \/ FramePointer
    \/ FrameDrag
    \/ FrameControlF
    \/ FrameRevert

SpecZoom == InitZoom /\ [][NextZoom]_vars

\* ===================================================================== claims

\* A frame in which the user clicks the primary button on a pane or a split
\* line of the layout, no widget of the editor acted on.
Click(m) == [mouse |-> m, clicked |-> TRUE, other |-> FALSE,
             dragging |-> "none", delta |-> <<0, 0>>,
             wantCaptureMouse |-> FALSE, ctrlF |-> FALSE]
ClickInputs == IF lastFrame.clicked \/ pc # "run" THEN {} ELSE {Click(m) : m \in MousePoints}

\* The state and the pane under the mouse when wmDrawPanes reaches its
\* dispatch of the click.
BeforePick(st, io) == wmDrawPanesMouse(wmDrawPanesFocus(wmDrawUI(st, NoEvent), io), io)

IsLeaf(n) ==
    /\ n.SplitLine.Axis = SplitAxisNone
    /\ n.Pane # NilPane
    /\ n.Children[0] = NilNode /\ n.Children[1] = NilNode

IsInternal(n) ==
    /\ n.SplitLine.Axis # SplitAxisNone
    /\ n.Pane = NilPane
    /\ n.Children[0] # NilNode /\ n.Children[1] # NilNode

\* C1: in every state the edit operations reach, every node of the active
\* tree is either a leaf (no axis, a pane, no children) or an internal node
\* (an axis, no pane, both children).
C1_LeafOrInternal ==
    \A n \in Reach(heap, DisplayRoot) : IsLeaf(heap[n]) \/ IsInternal(heap[n])

\* A new pane has just been placed in a tree of three panes.
C1_Witness ==
    /\ lastFrame.kind = "setPicked" /\ lastFrame.done
    /\ LeafCount(State) = 3

\* C2: the active tree has a leaf, and whenever the Delete handler is about
\* to run on the clicked pane, ParentNodeForPane gives it a parent and the
\* index 0 or 1.
C2_DeleteHasParent ==
    /\ Leaves(heap, DisplayRoot) # {}
    /\ \A io \in ClickInputs : \A b \in {BeforePick(State, io)} :
          ( /\ PickInvoked(b.st, io, b.mousePane)
            /\ b.st.handlePanePick.kind = "Delete" )
          => \A r \in {ParentNodeForPane(b.st.heap, b.st.DisplayRoot, b.mousePane)} :
                r[1] # NilNode /\ r[2] \in {0, 1}
\* The rest of wmDrawPanes, from the dispatch of the click on.
AfterPick(b, io) == wmDrawPanesOverride(wmDrawPanesPick(b, io), io)

\* The handler of that kind is about to be called on the pane under the mouse.
Picks(b, io, kinds) ==
    /\ PickInvoked(b.st, io, b.mousePane)
    /\ b.st.handlePanePick.kind \in kinds

InternalNodes(h, d) == {n \in Reach(h, d) : h[n].Children[0] # NilNode}

\* Pane P, child idx of node N, is deleted from the tree h below root; h2 is
\* the result.
DeleteEffect(h, root, P, N, idx, h2) ==
    /\ h2[N] = h[h[N].Children[1 - idx]]
    /\ P \notin Range(VisitPanes(h2, root))
    /\ h[N].Children[0] \notin Reach(h2, root)
    /\ h[N].Children[1] \notin Reach(h2, root)
    /\ Cardinality(Leaves(h2, root)) = Cardinality(Leaves(h, root)) - 1
    /\ Cardinality(InternalNodes(h2, root)) = Cardinality(InternalNodes(h, root)) - 1
    /\ \A n \in Reach(h, root) \ Reach(h, N) : n \in Reach(h2, root) /\ h2[n] = h[n]

\* C3: when Delete runs on a leaf P whose parent is N with other child S,
\* afterwards N holds what S held, P is not in the traversal, neither old
\* child of N is reachable, there is one leaf less and one divider less, and
\* the nodes outside N's subtree are unchanged.
C3_DeleteCollapses ==
    \A io \in ClickInputs : \A b \in {BeforePick(State, io)} :
        Picks(b, io, {"Delete"}) =>
            \A r \in {ParentNodeForPane(b.st.heap, b.st.DisplayRoot, b.mousePane)} :
                r[1] # NilNode =>
                    \A d \in {AfterPick(b, io)} :
                        /\ d.done
                        /\ d.st.DisplayRoot = b.st.DisplayRoot
                        /\ DeleteEffect(b.st.heap, b.st.DisplayRoot, b.mousePane,
                                        r[1], r[2], d.st.heap)

\* A Delete has just collapsed a tree of three panes to one of two: the other
\* child was an internal node.
C3_Witness ==
    /\ lastFrame.kind = "Delete" /\ lastFrame.done
    /\ LeafCount(State) = 2

AxisOfButton(name) ==
    IF name = "Split Horizontally" THEN SplitAxisX ELSE SplitAxisY

\* The leaf n holding pane P is split along axis in the tree h below root; h2
\* is the result, types and types2 the types of the panes before and after,
\* live the panes referenced before.
SplitEffect(h, root, P, n, axis, h2, types, types2, live) ==
    /\ h2[n].Pane = NilPane
    /\ h2[n].SplitLine = [Pos |-> HalfPos, Axis |-> axis]
    /\ \A c \in {h2[n].Children[0], h2[n].Children[1]} :
          c # NilNode /\ c \notin Reach(h, root) /\ IsLeaf(h2[c])
    /\ h2[n].Children[0] # h2[n].Children[1]
    /\ h2[h2[n].Children[0]].Pane \notin live
    /\ types2[h2[h2[n].Children[0]].Pane] = "EmptyPane"
    /\ h2[h2[n].Children[1]].Pane = P
    /\ \A m \in Reach(h, root) \ {n} : m \in Reach(h2, root) /\ h2[m] = h[m]
    /\ \A p \in live : types2[p] = types[p]

\* C4: when a split runs on the leaf holding P, that node becomes an internal
\* node with fraction 0.5 and the axis of the button (X for Split
\* Horizontally, Y for Split Vertically), its child 0 a new leaf with a new
\* empty pane, its child 1 a leaf with P; no other node changes, and the
\* handler returns true and is disarmed.
C4_SplitInOneClick ==
    \A io \in ClickInputs : \A b \in {BeforePick(State, io)} :
        Picks(b, io, {"Split Horizontally", "Split Vertically"}) =>
            \A d \in {AfterPick(b, io)} :
                /\ d.done
                /\ d.st.handlePanePick = NoHandler
                /\ d.st.active = ""
                /\ d.st.DisplayRoot = b.st.DisplayRoot
                /\ SplitEffect(b.st.heap, b.st.DisplayRoot, b.mousePane,
                               NodeForPane(b.st.heap, b.st.DisplayRoot, b.mousePane),
                               AxisOfButton(b.st.handlePanePick.kind),
                               d.st.heap, b.st.paneType, d.st.paneType, LivePanes(b.st))

\* A pane of a tree of two has just been split vertically.
C4_Witness ==
    /\ lastFrame.kind = "Split Vertically" /\ lastFrame.done
    /\ LeafCount(State) = 3
\* The armed state is cleared: no first pick, no pick handler, no active
\* button, no help text.
ArmedStateCleared(st) ==
    /\ st.paneFirstPick = NilPane
    /\ st.handlePanePick = NoHandler
    /\ st.active = ""
    /\ st.paneConfigHelpText = ""

\* The first click of Copy or Exchange on the pane under the mouse: the pane
\* is recorded, the tree is unchanged and the handler stays armed.
FirstClickRecords(b, d) ==
    /\ ~d.done
    /\ d.st.paneFirstPick = b.mousePane
    /\ d.st.heap = b.st.heap /\ d.st.DisplayRoot = b.st.DisplayRoot
    /\ d.st.handlePanePick = b.st.handlePanePick
    /\ d.st.active = b.st.active

\* The second click of Copy on the pane of leaf n: the leaf gets a new pane
\* of the type of the source src, and nothing else of the tree changes.
CopyEffect(b, d, src, n) ==
    /\ d.done
    /\ d.st.DisplayRoot = b.st.DisplayRoot
    /\ d.st.heap[n].Pane \notin LivePanes(b.st) \cup {NilPane, src}
    /\ d.st.paneType[d.st.heap[n].Pane] = b.st.paneType[src]
    /\ d.st.heap[n] = [b.st.heap[n] EXCEPT !.Pane = d.st.heap[n].Pane]
    /\ \A m \in Reach(b.st.heap, b.st.DisplayRoot) \ {n} : d.st.heap[m] = b.st.heap[m]
    /\ ArmedStateCleared(d.st)

\* The leaf that holds the source is as it was.
SourceLeafUnchanged(b, d, src) ==
    \A m \in Reach(b.st.heap, b.st.DisplayRoot) :
        b.st.heap[m].Pane = src => d.st.heap[m] = b.st.heap[m]

\* C5, as stated: the first click of Copy only records the source; the second
\* gives the clicked leaf a new duplicate of the source, leaves the source
\* leaf and the shape of the tree unchanged, and clears the armed state.
C5_CopyLeavesSourceLeaf ==
    \A io \in ClickInputs : \A b \in {BeforePick(State, io)} :
        Picks(b, io, {"Copy"}) =>
            \A d \in {AfterPick(b, io)} :
                IF b.st.paneFirstPick = NilPane
                THEN FirstClickRecords(b, d)
                ELSE /\ CopyEffect(b, d, b.st.paneFirstPick,
                                   NodeForPane(b.st.heap, b.st.DisplayRoot, b.mousePane))
                     /\ SourceLeafUnchanged(b, d, b.st.paneFirstPick)

\* C5, amended: as above, but the source leaf is unchanged unless it is the
\* clicked leaf itself (the same pane clicked twice), whose pane is then
\* replaced by the duplicate like that of any destination.
C5_CopyTwoPhase ==
    \A io \in ClickInputs : \A b \in {BeforePick(State, io)} :
        Picks(b, io, {"Copy"}) =>
            \A d \in {AfterPick(b, io)} :
                IF b.st.paneFirstPick = NilPane
                THEN FirstClickRecords(b, d)
                ELSE /\ CopyEffect(b, d, b.st.paneFirstPick,
                                   NodeForPane(b.st.heap, b.st.DisplayRoot, b.mousePane))
                     /\ b.mousePane # b.st.paneFirstPick
                           => SourceLeafUnchanged(b, d, b.st.paneFirstPick)

\* The second click of a Copy has just landed on the pane of the first.
C5_Witness ==
    /\ lastFrame.kind = "Copy" /\ lastFrame.done
    /\ lastFrame.first = lastFrame.pane

\* The two leaves holding panes p0 and p1 have their panes exchanged, and
\* nothing else of the tree changes.
ExchangeEffect(h, root, p0, p1, h2) ==
    /\ \A m \in Reach(h, root) :
          h2[m] = [h[m] EXCEPT !.Pane = IF @ = p0 THEN p1 ELSE IF @ = p1 THEN p0 ELSE @]
    /\ Reach(h2, root) = Reach(h, root)
    /\ LeafPanes(h2, root) = LeafPanes(h, root)

\* C6: the first click of Exchange only records the pane; after the second
\* the panes of the two leaves are exchanged in place, the shape, the dividers
\* and the set of panes of the tree unchanged (the whole tree unchanged when
\* both clicks are on the same pane), and the armed state is cleared.
C6_ExchangeTwoPhase ==
    \A io \in ClickInputs : \A b \in {BeforePick(State, io)} :
        Picks(b, io, {"Exchange"}) =>
            \A d \in {AfterPick(b, io)} :
                IF b.st.paneFirstPick = NilPane
                THEN FirstClickRecords(b, d)
                ELSE /\ d.done
                     /\ d.st.DisplayRoot = b.st.DisplayRoot
                     /\ ExchangeEffect(b.st.heap, b.st.DisplayRoot,
                                       b.st.paneFirstPick, b.mousePane, d.st.heap)
                     /\ d.st.paneFirstPick = NilPane
                     /\ d.st.handlePanePick = NoHandler
                     /\ d.st.active = ""
SplitButtons == {"Split Horizontally", "Split Vertically"}

\* The pane the split of pane L has just created, in state s1.
NewPaneOfSplit(st, s1, L) ==
    s1.heap[s1.heap[NodeForPane(st.heap, st.DisplayRoot, L)].Children[0]].Pane

\* With a split armed in the editor the user clicks pane L (state s1), presses
\* Delete (state s2) and clicks at m: the click lands on the pane the split
\* created.
SplitThenDeleteRuns(b, io, s1, s2, m) ==
    /\ showConfigEditor
    /\ Picks(b, io, SplitButtons)
    /\ EventPossible(s1, ButtonEvent("Delete"))
    /\ BeforePick(s2, Click(m)).mousePane = NewPaneOfSplit(State, s1, b.mousePane)

\* C7: splitting the leaf of pane L and then deleting the pane the split
\* created gives back the tree as it was before the split: the same shape,
\* L in its place, every other pane and divider unchanged.
C7_SplitThenDelete ==
    \A io \in ClickInputs : \A b \in {BeforePick(State, io)} :
    \A s1 \in {RawFrame(State, NoEvent, io).st} :
    \A s2 \in {RawFrame(s1, ButtonEvent("Delete"), OnEditor).st} :
    \A m \in LayoutPoints(s2) :
        SplitThenDeleteRuns(b, io, s1, s2, m) =>
            \A s3 \in {RawFrame(s2, NoEvent, Click(m)).st} :
                /\ s3.pc = "run"
                /\ s3.lastFrame.done
                /\ s3.DisplayRoot = DisplayRoot
                /\ TreeOf(s3.heap, s3.DisplayRoot) = TreeOf(heap, DisplayRoot)

\* A split is armed on a tree of two panes, and the user can click a pane,
\* press Delete and click the pane the split creates.
C7_Witness ==
    /\ LeafCount(State) = 2
    /\ \E io \in ClickInputs : \E b \in {BeforePick(State, io)} :
       \E s1 \in {RawFrame(State, NoEvent, io).st} :
       \E s2 \in {RawFrame(s1, ButtonEvent("Delete"), OnEditor).st} :
       \E m \in LayoutPoints(s2) :
           /\ SplitThenDeleteRuns(b, io, s1, s2, m)
           /\ RawFrame(s2, NoEvent, Click(m)).st.lastFrame.kind = "Delete"

\* C8, as stated: on a single-leaf tree none of the five buttons is shown, so
\* none can be pressed.
C8_NoButtonOnSingleLeaf ==
    (showConfigEditor /\ IsLeaf(heap[DisplayRoot])) =>
        \A i \in 1..Len(ButtonNames) : ~EventPossible(State, ButtonEvent(ButtonNames[i]))

\* C8, amended: Copy, Exchange and Delete are shown, and are pressed, only
\* when the tree has more than one node; Split Horizontally and Split
\* Vertically are always shown.
C8_ButtonsShown ==
    /\ showConfigEditor =>
          \A i \in 1..Len(ButtonNames) :
              EventPossible(State, ButtonEvent(ButtonNames[i]))
                  <=> (ButtonNames[i] \in SplitButtons \/ ~IsLeaf(heap[DisplayRoot]))
    /\ lastFrame.ui \in {"Copy", "Exchange", "Delete"} => ~IsLeaf(heap[DisplayRoot])

\* Split Horizontally has just been pressed, and armed, on a single-leaf tree.
C8_Witness ==
    /\ IsLeaf(heap[DisplayRoot])
    /\ lastFrame.ui = "Split Horizontally"
    /\ handlePanePick = ButtonHandler("Split Horizontally")

\* A frame in which the mouse is over a pane or a split line, with or without
\* a click of the primary button or of another one.
PaneInputs ==
    IF pc # "run" THEN {}
    ELSE {[mouse |-> m, clicked |-> c, other |-> o, dragging |-> "none",
           delta |-> <<0, 0>>, wantCaptureMouse |-> FALSE, ctrlF |-> FALSE] :
             m \in MousePoints, c \in {c \in BOOLEAN : c => ~lastFrame.clicked},
             o \in BOOLEAN}

\* C9: in a frame the pick handler is called only when one is armed, the
\* primary button has been clicked and the pane under the mouse is a pane, not
\* a split line; it is called once; if it returns true the handler is
\* disarmed in that frame, if it returns false it stays armed.
C9_DispatchOnce ==
    \A io \in PaneInputs : \A b \in {BeforePick(State, io)} : \A d \in {AfterPick(b, io)} :
        /\ d.invoked => /\ handlePanePick # NoHandler
                        /\ io.clicked
                        /\ b.mousePane # NilPane /\ ~IsSplitLine(b.mousePane)
        /\ ~d.invoked => /\ d.st.heap = heap
                         /\ d.st.paneFirstPick = paneFirstPick
                         /\ d.st.handlePanePick = handlePanePick
        /\ (d.invoked /\ d.st.pc = "run") =>
              /\ d.st.heap = CallHandlePanePick(b.st, b.mousePane).st.heap
              /\ d.done => d.st.handlePanePick = NoHandler
              /\ ~d.done => /\ d.st.handlePanePick = handlePanePick
                            /\ d.st.heap = heap
                            /\ d.st.paneFirstPick = b.mousePane

\* The first click of a Copy or an Exchange has just been dispatched: the
\* handler is still armed.
C9_Witness ==
    /\ lastFrame.invoked /\ ~lastFrame.done /\ pc = "run"
    /\ handlePanePick # NoHandler

Max(S) == CHOOSE x \in S : \A y \in S : y <= x

\* Where the panes of the types are, in the traversal.
PlacesOfTypes(seq, types) ==
    {i \in 1..Len(seq) : ~IsSplitLine(seq[i]) /\ paneType[seq[i]] \in types}
FocusTypes == {t \in PaneTypes : CanTakeKeyboardFocusType(t)}

\* The keyboard focus after the frame's resolution of it.
FocusAfter == wmDrawPanesFocus(wmDrawUI(State, NoEvent), OnEditor).keyboardFocusPane

\* C10, as stated: a focus pane in the traversal is kept, one that is not is
\* cleared; with none set the focus goes to a CLI pane if there is one, else
\* to the first pane of the traversal that can take the keyboard focus, else
\* to none.
C10_FocusFirstFocusable ==
    \A f \in {FocusAfter} : \A seq \in {VisitPanes(heap, DisplayRoot)} :
        IF keyboardFocusPane \in Range(seq) THEN f = keyboardFocusPane
        ELSE IF PlacesOfTypes(seq, {"CLIPane"}) # {}
        THEN f \in {seq[i] : i \in PlacesOfTypes(seq, {"CLIPane"})}
        ELSE IF PlacesOfTypes(seq, FocusTypes) # {}
        THEN f = seq[Min(PlacesOfTypes(seq, FocusTypes))]
        ELSE f = NilPane

\* C10, amended: with none set the focus goes to the last CLI pane of the
\* traversal if there is one, else to the last pane of the traversal that can
\* take the keyboard focus, else to none.
C10_FocusLastFocusable ==
    \A f \in {FocusAfter} : \A seq \in {VisitPanes(heap, DisplayRoot)} :
        IF keyboardFocusPane \in Range(seq) THEN f = keyboardFocusPane
        ELSE IF PlacesOfTypes(seq, {"CLIPane"}) # {}
        THEN f = seq[Max(PlacesOfTypes(seq, {"CLIPane"}))]
        ELSE IF PlacesOfTypes(seq, FocusTypes) # {}
        THEN f = seq[Max(PlacesOfTypes(seq, FocusTypes))]
        ELSE f = NilPane

\* A frame that started with no focus has given it to the last of several
\* panes that can take it, none of them a CLI pane.
C10_Witness ==
    /\ lastFrame.ui = "none" /\ lastFrame.focus = NilPane
    /\ \E seq \in {VisitPanes(heap, DisplayRoot)} :
          /\ PlacesOfTypes(seq, {"CLIPane"}) = {}
          /\ Cardinality(PlacesOfTypes(seq, FocusTypes)) >= 2
          /\ keyboardFocusPane = seq[Max(PlacesOfTypes(seq, FocusTypes))]

\* The inputs a frame over the panes may be given.
FrameInputs ==
    IF pc # "run" THEN {}
    ELSE PointerInputs \cup DragInputs \cup ControlFInputs \cup ChromeInputs

\* C11: in a frame with a click or a drag active that imgui does not want,
\* an override that is set stays the same pane or split line whatever is
\* under the mouse, and one that is not set becomes what is under the mouse;
\* in a frame with no click or drag, or that imgui wants, the override is
\* none after the resolution.
C11_OverrideKept ==
    \A io \in FrameInputs : \A d \in {RawFrame(State, NoEvent, io)} :
        IF io.wantCaptureMouse \/ ~Acting(io)
        THEN d.st.mouseConsumerOverride = NilPane
        ELSE IF mouseConsumerOverride # NilPane
        THEN d.st.mouseConsumerOverride = mouseConsumerOverride
        ELSE d.st.mouseConsumerOverride = d.mousePane

\* A drag has kept the override, and the next frame of the drag keeps it with
\* something else under the mouse.
C11_Witness ==
    /\ mouseConsumerOverride # NilPane
    /\ lastFrame.dragging # "none"
    /\ \E io \in DragInputs : \E d \in {RawFrame(State, NoEvent, io)} :
          /\ d.mousePane \notin {NilPane, mouseConsumerOverride}
          /\ d.st.mouseConsumerOverride = mouseConsumerOverride

\* The state when wmDrawPanes reaches its render traversal.
BeforeRender(st, io) == AfterPick(BeforePick(st, io), io).st

\* The mouse position wmDrawPanes tests, its y flipped.
MousePos(io) == <<io.mouse[1], DisplayH - 1 - io.mouse[2]>>

\* The elements a traversal of the tree of st shows, each with its display
\* rectangle: those of the tree, or the zoomed pane with the whole display.
ShownElements(st) ==
    IF st.nodeFilterUnset
    THEN VisitPanesWithBounds(st.heap, st.DisplayRoot, DisplayFull(st), DisplayFull(st),
                              DisplayFull(st))
    ELSE << [disp |-> DisplayFull(st), parent |-> DisplayFull(st),
             full |-> DisplayFull(st), pane |-> st.nodeFilterPane] >>

Granted(visits) == {i \in 1..Len(visits) : visits[i].ownsMouse}

\* C12: in the render traversal of a frame a pane or split line is given the
\* mouse iff it is the mouse override, or no override is set, imgui does not
\* want the mouse and the mouse is inside its display rectangle; at most one
\* of the elements visited is given the mouse, and none in a frame in which
\* imgui wants the mouse.
C12_MouseGranted ==
    \A io \in FrameInputs : \A st \in {BeforeRender(State, io)} :
    \A e \in {ShownElements(st)} : \A v \in {RenderTraversal(st, io).visits} :
        /\ Len(v) = Len(e)
        /\ \A i \in 1..Len(v) :
              /\ v[i].pane = e[i].pane
              /\ v[i].ownsMouse <=>
                    \/ st.mouseConsumerOverride = e[i].pane
                    \/ /\ st.mouseConsumerOverride = NilPane
                       /\ ~io.wantCaptureMouse
                       /\ Inside(e[i].disp, MousePos(io))
        /\ Cardinality(Granted(v)) <= 1
        /\ io.wantCaptureMouse => Granted(v) = {}

\* In the course of a drag the mouse can be moved over one element while
\* another, the override, is the one given the mouse.
C12_Witness ==
    /\ lastFrame.dragging # "none"
    /\ \E io \in DragInputs : \E st \in {BeforeRender(State, io)} :
       \E e \in {ShownElements(st)} : \E v \in {RenderTraversal(st, io).visits} :
           \E i \in 1..Len(v), j \in 1..Len(v) :
               /\ i # j
               /\ Granted(v) = {i}
               /\ st.mouseConsumerOverride = v[i].pane
               /\ Inside(e[j].disp, MousePos(io))

\* C15: in a frame in which the zoom filter is set and the mouse is inside
\* the display area, mousePane is the zoomed pane; in a frame in which the
\* zoom is off, mousePane is what findPaneForMouse gives on the whole tree.
C15_HitTestFiltered ==
    \A io \in FrameInputs : \A b \in {BeforePick(State, io)} :
        /\ ( /\ ~b.st.nodeFilterUnset
             /\ Inside(DisplayFull(b.st), MousePos(io)) )
           => b.mousePane = b.st.nodeFilterPane
        /\ ~b.st.showPaneAsRoot
           => b.mousePane = findPaneForMouse(b.st.heap, b.st.DisplayRoot,
                                             DisplayFull(b.st), MousePos(io))

\* C20, as stated: in the render traversal of a frame no pane slot, child
\* link, axis or fraction of the tree changes: the tree after it is the tree
\* before it.
C20_TreeUnchangedInTraversal ==
    \A io \in FrameInputs : \A st \in {BeforeRender(State, io)} :
        TreeOf(RenderTraversal(st, io).heap, st.DisplayRoot)
            = TreeOf(st.heap, st.DisplayRoot)

\* The split lines the traversal gave the mouse.
GrantedSplitLines(v) == {SplitLineNode(v[i].pane) : i \in {j \in Granted(v) : IsSplitLine(v[j].pane)}}

\* C20, amended: in the render traversal no pane slot, child link or axis
\* changes; the fraction of a split line changes only in the visit of that
\* split line, when it is given the mouse and the secondary button drags; and
\* every element is visited with the rectangles of the tree as it was when
\* the traversal started.
C20_TraversalOfStartTree ==
    \A io \in FrameInputs : \A st \in {BeforeRender(State, io)} :
    \A e \in {ShownElements(st)} : \A r \in {RenderTraversal(st, io)} :
        /\ Len(r.visits) = Len(e)
        /\ \A i \in 1..Len(e) :
              /\ r.visits[i].pane = e[i].pane
              /\ r.visits[i].disp = e[i].disp
              /\ r.visits[i].parent = e[i].parent
        /\ \A n \in NodeIds :
              /\ r.heap[n].Pane = st.heap[n].Pane
              /\ r.heap[n].Children = st.heap[n].Children
              /\ r.heap[n].SplitLine.Axis = st.heap[n].SplitLine.Axis
              /\ r.heap[n].SplitLine.Pos # st.heap[n].SplitLine.Pos
                    => /\ n \in GrantedSplitLines(r.visits)
                       /\ io.dragging = "secondary"

\* A drag with the secondary button has moved a split line, and the next
\* frame of the drag moves it again.
C20_Witness ==
    /\ lastFrame.dragging = "secondary"
    /\ \E n \in Reach(heap, DisplayRoot) :
          heap[n].SplitLine.Axis # SplitAxisNone /\ heap[n].SplitLine.Pos # HalfPos
    /\ \E io \in DragInputs : \E st \in {BeforeRender(State, io)} :
          RenderTraversal(st, io).heap # st.heap

\* The panes and split lines below d.
ElementsOf(h, d) ==
    LeafPanes(h, d) \cup {SplitLinePane(n) : n \in Reach(h, d) \ Leaves(h, d)}

\* The visits of a traversal with bounds whose rectangle holds p.
VisitsHolding(v, p) == {i \in 1..Len(v) : Inside(v[i].disp, p)}

\* The point of the rectangle e of a node at the fraction of its split line,
\* along its axis: p is on the centerline of the split line.
OnCenterline(sl, e, p) ==
    IF sl.Axis = SplitAxisX
    THEN p[1] = e.p0[1] + (sl.Pos * (e.p1[1] - e.p0[1])) \div 100
    ELSE p[2] = e.p0[2] + (sl.Pos * (e.p1[2] - e.p0[2])) \div 100

\* C14: for a point inside the display rectangle findPaneForMouse gives the
\* pane or split line whose rectangle in VisitPanesWithBounds holds the point
\* (one rectangle does); a point on the centerline of a split line, inside
\* the rectangle of its node, gives that split line; a point outside the
\* display rectangle gives none.
C14_HitTestAgreesWithBounds ==
    lastCall.fn = "findPaneForMouse" =>
        \A c \in {lastCall} :
        \A v \in {VisitPanesWithBounds(heap, c.d, c.extent, c.extent, c.extent)} :
            /\ Inside(c.extent, c.p)
                 => /\ Cardinality(VisitsHolding(v, c.p)) = 1
                    /\ \A i \in VisitsHolding(v, c.p) : c.result = v[i].pane
            /\ \A i \in 1..Len(v) :
                 ( /\ IsSplitLine(v[i].pane)
                   /\ Inside(v[i].parent, c.p)
                   /\ OnCenterline(heap[SplitLineNode(v[i].pane)].SplitLine, v[i].parent, c.p) )
                 => c.result = v[i].pane
            /\ ~Inside(c.extent, c.p) => c.result = NilPane

\* findPaneForMouse was called with a point on the centerline of the split
\* line of the second level of a tree of three panes, and gave that split
\* line.
C14_Witness ==
    /\ lastCall.fn = "findPaneForMouse"
    /\ IsSplitLine(lastCall.result)
    /\ SplitLineNode(lastCall.result) # lastCall.d
    /\ \E i \in 1..5 :
         \E v \in {VisitPanesWithBounds(heap, lastCall.d, lastCall.extent,
                                        lastCall.extent, lastCall.extent)} :
            /\ Len(v) = 5
            /\ v[i].pane = lastCall.result
            /\ OnCenterline(heap[SplitLineNode(v[i].pane)].SplitLine, v[i].parent, lastCall.p)

\* C16: NodeForPane of a pane a leaf of the tree holds gives a node of the
\* tree whose Pane is that very pane; of a pane no leaf of the tree holds
\* (a pane of another tree with the same type and name, a split line) it
\* gives nil.
C16_NodeForPaneByIdentity ==
    lastCall.fn = "NodeForPane" =>
        \A c \in {lastCall} :
            /\ c.pane \in LeafPanes(heap, c.d)
                 => /\ c.result \in Reach(heap, c.d)
                    /\ heap[c.result].Pane = c.pane
            /\ c.pane \notin LeafPanes(heap, c.d) => c.result = NilNode

\* NodeForPane found the pane of the last leaf of a tree of three panes,
\* while another tree holds a pane of the same type and name.
C16_Witness ==
    /\ lastCall.fn = "NodeForPane"
    /\ lastCall.result # NilNode
    /\ Len(VisitPanes(heap, lastCall.d)) = 5
    /\ VisitPanes(heap, lastCall.d)[5] = lastCall.pane
    /\ \E p \in PaneIds \ LeafPanes(heap, lastCall.d) :
          /\ paneType[p] = paneType[lastCall.pane]
          /\ paneName[p] = paneName[lastCall.pane]

RECURSIVE ShapeOf(_, _)
\* The shape of a tree, with the axis and the fraction of every split line.
ShapeOf(h, d) ==
    IF h[d].SplitLine.Axis = SplitAxisNone THEN <<>>
    ELSE << h[d].SplitLine.Axis, h[d].SplitLine.Pos,
            ShapeOf(h, h[d].Children[0]), ShapeOf(h, h[d].Children[1]) >>

\* The names of the panes and split lines of a tree, in the order of
\* VisitPanes.
NamesVisited(h, names, d) ==
    [i \in 1..Len(VisitPanes(h, d)) |-> NameOfPane(names, VisitPanes(h, d)[i])]

\* C17: the tree Duplicate returns has the shape, axes and fractions of the
\* source, shares no node and no pane with it, and VisitPanes gives the same
\* sequence of names on both.
C17_DuplicateIsACopy ==
    lastCall.fn = "Duplicate" =>
        \A c \in {lastCall} :
            /\ ShapeOf(heap, c.result) = ShapeOf(heap, c.d)
            /\ Reach(heap, c.result) \cap Reach(heap, c.d) = {}
            /\ ElementsOf(heap, c.result) \cap ElementsOf(heap, c.d) = {}
            /\ NilPane \notin LeafPanes(heap, c.result)
            /\ NamesVisited(heap, paneName, c.result) = NamesVisited(heap, paneName, c.d)

\* A tree of three panes of different names has been duplicated.
C17_Witness ==
    /\ lastCall.fn = "Duplicate"
    /\ Cardinality(Leaves(heap, lastCall.result)) = 3
    /\ Cardinality({paneName[p] : p \in LeafPanes(heap, lastCall.d)}) = 3

\* The place of x in a sequence without repetition.
PlaceOf(seq, x) == CHOOSE i \in 1..Len(seq) : seq[i] = x

\* C18: VisitPanes visits every leaf pane and every split line of the tree,
\* each once; for every internal node, all of its child 0 subtree comes
\* before its split line and all of its child 1 subtree after it; for a leaf
\* it visits the pane.
C18_VisitPanesInOrder ==
    lastCall.fn = "VisitPanes" =>
        \A c \in {lastCall} :
            /\ Range(c.result) = ElementsOf(heap, c.d)
            /\ Len(c.result) = Cardinality(ElementsOf(heap, c.d))
            /\ \A n \in Reach(heap, c.d) \ Leaves(heap, c.d) :
                 /\ \A x \in ElementsOf(heap, heap[n].Children[0]) :
                       PlaceOf(c.result, x) < PlaceOf(c.result, SplitLinePane(n))
                 /\ \A x \in ElementsOf(heap, heap[n].Children[1]) :
                       PlaceOf(c.result, x) > PlaceOf(c.result, SplitLinePane(n))
            /\ c.d \in Leaves(heap, c.d) => c.result = <<heap[c.d].Pane>>

\* VisitPanes was called on a tree of three panes.
C18_Witness ==
    /\ lastCall.fn = "VisitPanes"
    /\ Len(lastCall.result) = 5
    /\ Cardinality(Leaves(heap, lastCall.d)) = 3

\* C19: VisitPanesWithBounds with the identity filter calls visit on the
\* panes and split lines VisitPanes calls it on, in the same order.
C19_SameOrderWithBounds ==
    lastCall.fn = "VisitPanesWithBounds" =>
        [i \in 1..Len(lastCall.result) |-> lastCall.result[i].pane]
            = VisitPanes(heap, lastCall.d)

\* VisitPanesWithBounds was called on a tree of three panes whose first
\* child is split.
C19_Witness ==
    /\ lastCall.fn = "VisitPanesWithBounds"
    /\ Len(lastCall.result) = 5
    /\ IsSplitLine(lastCall.result[2].pane)
    /\ IsSplitLine(lastCall.result[4].pane)

\* The places of the calls of op in a sequence of calls.
CallsOf(calls, op) == {i \in 1..Len(calls) : calls[i].op = op}

\* C13: wmActivateNewConfig calls Deactivate once on every pane of the old
\* tree (on none when old is nil) and Activate, with the color scheme given,
\* once on every pane of the new tree, every Deactivate before every
\* Activate; after it the two maps of the pane settings are empty and the
\* keyboard focus pane is nil.
C13_ActivateNewConfig ==
    lastCall.fn = "wmActivateNewConfig" =>
        \A c \in {lastCall} :
            /\ \A p \in ElementsOf(heap, c.nw) :
                 Cardinality({i \in CallsOf(c.calls, "Activate") :
                                 c.calls[i].pane = p /\ c.calls[i].cs = c.cs}) = 1
            /\ Cardinality(CallsOf(c.calls, "Activate")) = Cardinality(ElementsOf(heap, c.nw))
            /\ c.old # NilNode =>
                 /\ \A p \in ElementsOf(heap, c.old) :
                      Cardinality({i \in CallsOf(c.calls, "Deactivate") :
                                      c.calls[i].pane = p}) = 1
                 /\ Cardinality(CallsOf(c.calls, "Deactivate"))
                        = Cardinality(ElementsOf(heap, c.old))
            /\ c.old = NilNode => CallsOf(c.calls, "Deactivate") = {}
            /\ \A i \in CallsOf(c.calls, "Deactivate") :
                 \A j \in CallsOf(c.calls, "Activate") : i < j
            /\ showPaneSettings = <<>>
            /\ showPaneName = <<>>
            /\ keyboardFocusPane = NilPane

\* The configuration of three panes has been replaced by the one of two.
C13_Witness ==
    /\ lastCall.fn = "wmActivateNewConfig"
    /\ lastCall.old = 1 /\ lastCall.nw = 6
    /\ Len(lastCall.calls) = 8
    /\ showPaneSettings = <<>>
    /\ keyboardFocusPane = NilPane

\* C21: SplitX(f, n) on a leaf d returns an internal node of axis X, fraction
\* f and children d and n, SplitY(f, n) one of axis Y; on a node that is
\* internal already no split is made (the node itself is what comes back).
C21_SplitAlongAxis ==
    lastCall.fn \in {"SplitX", "SplitY"} =>
        \A c \in {lastCall} :
            IF heap[c.d].SplitLine.Axis = SplitAxisNone
            THEN /\ heap[c.result].Pane = NilPane
                 /\ heap[c.result].SplitLine.Axis
                      = (IF c.fn = "SplitX" THEN SplitAxisX ELSE SplitAxisY)
                 /\ heap[c.result].SplitLine.Pos = c.x
                 /\ heap[c.result].Children = Children2(c.d, c.newChild)
            ELSE c.result = c.d

\* C22: in every state the edit operations reach from a layout of distinct
\* panes, no pane is held by two leaves of the tree.
C22_NoPaneInTwoLeaves ==
    \A n1 \in Leaves(heap, DisplayRoot) : \A n2 \in Leaves(heap, DisplayRoot) :
        heap[n1].Pane = heap[n2].Pane => n1 = n2

\* A Copy has just given a leaf of a layout of three panes its duplicate.
C22_Witness ==
    /\ lastFrame.kind = "Copy" /\ lastFrame.done
    /\ lastFrame.first # lastFrame.pane
    /\ Cardinality(Leaves(heap, DisplayRoot)) = 3
    /\ pc = "run"

\* C23: whenever a click is about to be given to the armed handler, every
\* lookup the handler makes finds its node: the clicked pane has a node (and,
\* for Delete, a parent), and at the second click of Copy or Exchange the
\* first-picked pane is still held by a leaf of the active tree; no handler
\* has dereferenced nil.
C23_HandlersFindTheirNodes ==
    /\ pc = "run"
    /\ \A io \in ClickInputs : \A b \in {BeforePick(State, io)} :
          PickInvoked(b.st, io, b.mousePane) =>
             /\ NodeForPane(b.st.heap, b.st.DisplayRoot, b.mousePane) # NilNode
             /\ b.st.handlePanePick.kind = "Delete"
                  => ParentNodeForPane(b.st.heap, b.st.DisplayRoot, b.mousePane)[1] # NilNode
             /\ ( /\ b.st.handlePanePick.kind \in {"Copy", "Exchange"}
                  /\ b.st.paneFirstPick # NilPane )
                  => b.st.paneFirstPick \in LeafPanes(b.st.heap, b.st.DisplayRoot)

\* C24: while the config editor is not shown no pick handler is armed, and a
\* primary click on a pane leaves the tree as it is.
C24_ArmedOnlyInEditor ==
    ~showConfigEditor =>
        /\ handlePanePick = NoHandler
        /\ \A io \in ClickInputs : \A b \in {BeforePick(State, io)} :
           \A d \in {AfterPick(b, io)} :
              /\ ~d.invoked
              /\ TreeOf(d.st.heap, d.st.DisplayRoot) = TreeOf(heap, DisplayRoot)

\* C25: a button of the button set is active exactly when the handler armed
\* is the one of that button: with an active button the armed handler is
\* that button's, and a button's handler is armed only while that button is
\* the active one.
C25_ActiveButtonIsArmed ==
    /\ active # "" => handlePanePick.kind = active
    /\ handlePanePick.kind \in Range(ButtonNames) => active = handlePanePick.kind

\* The ways out of the armed state: Cancel, and the active button pressed
\* again.
LeaveEvents ==
    {ev \in {CancelEvent} \cup {ButtonEvent(ButtonNames[i]) : i \in 1..Len(ButtonNames)} :
        /\ pc = "run"
        /\ handlePanePick # NoHandler
        /\ EventPossible(State, ev)
        /\ ev.type = "button" => ev.arg = active}

\* C26: after Cancel, and after the active button is pressed again, no
\* handler is armed, no button is active, the first pick is none, the help
\* text is empty, and the tree is as it was.
C26_LeavingRollsBack ==
    \A ev \in LeaveEvents : \A d \in {wmDrawUI(State, ev)} :
        /\ ArmedStateCleared(d)
        /\ d.DisplayRoot = DisplayRoot
        /\ TreeOf(d.heap, d.DisplayRoot) = TreeOf(heap, DisplayRoot)

\* C27: whatever the focus pane and the focus stack are, a transient
\* wmTakeKeyboardFocus of a pane followed by wmReleaseKeyboardFocus leaves
\* both as they were before the take, and a wmTakeKeyboardFocus that is not
\* transient leaves the stack empty and the pane focused.
C27_TransientFocusReturned ==
    \A pane \in LeafPanes(heap, DisplayRoot) :
        /\ \A r \in {wmReleaseKeyboardFocus(wmTakeKeyboardFocus(State, pane, TRUE))} :
              /\ r.keyboardFocusPane = keyboardFocusPane
              /\ r.keyboardFocusStack = keyboardFocusStack
        /\ \A t \in {wmTakeKeyboardFocus(State, pane, FALSE)} :
              /\ t.keyboardFocusPane = pane
              /\ t.keyboardFocusStack = <<>>

\* C28: the fraction of every split line of the layout stays within
\* [0.01, 0.99] whatever the frames and drags, and a frame changes the
\* fraction of a split line only if the traversal of that frame gave that
\* split line the mouse while a drag was in progress.
C28_FractionKeptInside ==
    /\ \A n \in Reach(heap, DisplayRoot) \ Leaves(heap, DisplayRoot) :
          heap[n].SplitLine.Pos >= PosMin /\ heap[n].SplitLine.Pos <= PosMax
    /\ \A io \in FrameInputs : \A st \in {BeforeRender(State, io)} :
       \A r \in {RenderTraversal(st, io)} :
          \A n \in NodeIds :
             r.heap[n].SplitLine.Pos # heap[n].SplitLine.Pos
                => /\ n \in GrantedSplitLines(r.visits)
                   /\ io.dragging # "none"

\* A drag with the secondary button has taken a split line to the end of its
\* range, and goes on.
C28_Witness ==
    /\ lastFrame.dragging = "secondary"
    /\ \E n \in Reach(heap, DisplayRoot) \ Leaves(heap, DisplayRoot) :
          heap[n].SplitLine.Pos \in {PosMin, PosMax}
    /\ DragInputs # {}

\* C29: the zoom filter is set only on a pane (not nil, not a split line),
\* and that pane is held by a leaf of the active tree for as long as the
\* filter is set; while it is set the traversal of a frame visits one
\* element, that pane, with the whole display rectangle; Control-F pressed in
\* a frame and again in the next leaves the tree as it was and the filter
\* the identity.
C29_ZoomOnePane ==
    /\ ~nodeFilterUnset => nodeFilterPane \in LeafPanes(heap, DisplayRoot)
    /\ \A io \in FrameInputs : \A st \in {BeforeRender(State, io)} :
          ~st.nodeFilterUnset =>
             \A r \in {RenderTraversal(st, io)} :
                /\ Len(r.visits) = 1
                /\ r.visits[1].pane = st.nodeFilterPane
                /\ r.visits[1].disp = DisplayFull(st)
                /\ r.heap = st.heap
    /\ \A io \in ControlFInputs : \A on \in {RawFrame(State, NoEvent, io).st} :
          ( /\ pc = "run" /\ ~showPaneAsRoot /\ on.pc = "run" )
          => \A off \in {RawFrame(on, NoEvent, io).st} :
                /\ off.nodeFilterUnset
                /\ off.nodeFilterPane = NilPane
                /\ ~off.showPaneAsRoot
                /\ TreeOf(off.heap, off.DisplayRoot) = TreeOf(heap, DisplayRoot)

====
